---- MODULE Spec2Model ----
(***************************************************************************)
(* The `now dev` development server.  The repository holds two DevServer   *)
(* classes:                                                                *)
(*   "stopping" - src/src/util/report-error.js:95-717, the class with the  *)
(*                `stopping` flag, the Build Match Registry and (in a      *)
(*                commented-out block, lines 508-701) the build            *)
(*                dispatcher.  The executing handler ends every local      *)
(*                response at line 506.                                    *)
(*   "status"   - src/unnamed/part_001:39-459, the class with the          *)
(*                busy/idle/error status, the initial build and the asset  *)
(*                serving switch.                                          *)
(* Both are modelled; `variant` says which class a behaviour runs.         *)
(* Paths and asset keys are sequences of tokens ("/" is a token, a file    *)
(* extension such as ".js" is a token), so that the string operations of   *)
(* the source act on them.  An await of the source is a scheduling point:  *)
(* each action is the code between two awaits.                             *)
(***************************************************************************)
EXTENDS FiniteSets, Integers, Sequences, TLC

\* ------------------------------------------------------------------ bounds
MaxReq == 2
MaxTicks == 1
MaxStops == 2
MaxEdits == 1

\* ------------------------------------------------------- program constants
TwoSeconds == 2000
TickMs == TwoSeconds
StartTime == TwoSeconds

Reqs == 1..MaxReq
Stops == 1..MaxStops
\* an optional value is a sequence of length 0 (absent) or 1 (present)
No == <<>>
Some(v) == <<v>>

\* ------------------------------------------------------------- paths, keys
Exts == {".js", ".html"}
Schemes == {"http:"}

FnKey == <<"fn", ".js">>
BlogKey == <<"blog", "/", "index", ".html">>
TxtKey == <<"data", ".js">>
AssetKeys == <<FnKey, BlogKey, TxtKey>>

UrlFn == <<"/">> \o FnKey
UrlBlog == <<"/", "blog">>
UrlData == <<"/">> \o TxtKey
UrlOld == <<"/", "old", "/", "page">>
UrlExt == <<"/", "ext">>
UrlMissing == <<"/", "missing">>
Urls == {UrlFn, UrlBlog, UrlData, UrlOld, UrlExt, UrlMissing}

\* the requests the clients send: a URL and whether the request carries
\* `pragma: no-cache` / `cache-control: no-cache`
RequestInputs ==
  {[url |-> UrlFn, noCache |-> TRUE], [url |-> UrlFn, noCache |-> FALSE],
   [url |-> UrlBlog, noCache |-> FALSE], [url |-> UrlData, noCache |-> FALSE],
   [url |-> UrlOld, noCache |-> FALSE], [url |-> UrlExt, noCache |-> FALSE],
   [url |-> UrlMissing, noCache |-> FALSE]}

Upstream == <<"http:", "/", "/", "upstream">>

\* is-url: a scheme-qualified destination
isURL(dest) == Len(dest) > 0 /\ dest[1] \in Schemes

StripLeadingSlash(p) == IF Len(p) > 0 /\ p[1] = "/" THEN Tail(p) ELSE p

StripTrailingSlash(p) == IF Len(p) > 0 /\ p[Len(p)] = "/" THEN SubSeq(p, 1, Len(p) - 1) ELSE p

\* name.replace(/\/?index(\.\w+)?$/, '')
WithoutIndex(name) ==
  LET n == Len(name)
      noExt == IF n > 0 /\ name[n] \in Exts THEN SubSeq(name, 1, n - 1) ELSE name
      m == Len(noExt)
      hit == IF n > 0 /\ name[n] = "index" THEN name
             ELSE IF m > 0 /\ noExt[m] = "index" THEN noExt
             ELSE <<>>
      h == Len(hit)
  IN IF h = 0 THEN name
     ELSE IF h > 1 /\ hit[h - 1] = "/" THEN SubSeq(hit, 1, h - 2)
     ELSE SubSeq(hit, 1, h - 1)

\* resolveDest(assets, dest): the direct entry, else the first key that is
\* an index of the destination; `keys` is Object.keys(assets), the keys in
\* insertion order
resolveDestIn(keys, as, dest) ==
  LET assetKey == StripLeadingSlash(dest)
      idx == {i \in 1..Len(keys) :
                /\ keys[i] \in DOMAIN as
                /\ WithoutIndex(keys[i]) = StripTrailingSlash(assetKey)}
  IN IF assetKey \in DOMAIN as THEN [asset |-> Some(as[assetKey]), assetKey |-> assetKey]
     ELSE IF idx # {} THEN
       LET i == CHOOSE j \in idx : \A k \in idx : j <= k
       IN [asset |-> Some(as[keys[i]]), assetKey |-> keys[i]]
     ELSE [asset |-> No, assetKey |-> assetKey]

\* resolveDest on the Asset Store of the server, whose keys are stored in the
\* order of AssetKeys
resolveDest(as, dest) == resolveDestIn(AssetKeys, as, dest)


\* ---------------------------------------------------------- configuration
\* a header map is a function from header names to values; {...a, ...b}
Merge(a, b) == b @@ a

NoHeaders == <<>>

RouteOld == [src |-> [prefix |-> <<"/", "old", "/">>, capture |-> TRUE],
             dest |-> Some([lit |-> <<"/", "new", "/">>, capture |-> TRUE]),
             status |-> 301, headers |-> ("location" :> "/new"), continue |-> FALSE]
RouteExt == [src |-> [prefix |-> UrlExt, capture |-> FALSE],
             dest |-> Some([lit |-> Upstream, capture |-> FALSE]),
             status |-> 0, headers |-> NoHeaders, continue |-> FALSE]
RouteApi == [src |-> [prefix |-> <<"/">>, capture |-> TRUE],
             dest |-> No,
             status |-> 0, headers |-> ("x-api" :> "1"), continue |-> TRUE]

BuildFn == [src |-> "fn.js", use |-> "@now/node"]
BuildFnGo == [src |-> "fn.js", use |-> "@now/go"]
BuildBlog == [src |-> "blog/index.html", use |-> "@now/static"]
BuildData == [src |-> "data.js", use |-> "@now/blob"]

Secret == <<"@", "api-key">>
Plain == <<"value">>

CfgBase == [version |-> 2, builds |-> Some(<<BuildFn, BuildBlog, BuildData>>),
            routes |-> <<RouteApi, RouteOld, RouteExt>>, env |-> NoHeaders, buildEnv |-> NoHeaders]
CfgOther == [version |-> 2, builds |-> Some(<<BuildFnGo, BuildData>>),
             routes |-> <<RouteOld>>, env |-> NoHeaders, buildEnv |-> NoHeaders]
CfgNoBuilds == [version |-> 2, builds |-> No,
                routes |-> <<RouteExt>>, env |-> NoHeaders, buildEnv |-> NoHeaders]
CfgV1 == [version |-> 1, builds |-> Some(<<BuildFn>>),
          routes |-> <<>>, env |-> NoHeaders, buildEnv |-> NoHeaders]
CfgSecret == [version |-> 2, builds |-> Some(<<BuildFn>>),
              routes |-> <<>>, env |-> ("API_KEY" :> Secret), buildEnv |-> NoHeaders]

\* the content of now.json: a configuration, or no file (ENOENT)
ENOENT == No
NowJsonFiles == {Some(CfgBase), Some(CfgOther), Some(CfgNoBuilds), Some(CfgV1), Some(CfgSecret), ENOENT}

\* the content of the .env file
DotenvFiles == {NoHeaders, "API_KEY" :> Plain}

\* ------------------------------------------------------------ dev-router
StartsWith(p, pre) == Len(p) >= Len(pre) /\ SubSeq(p, 1, Len(pre)) = pre

RuleMatches(rule, path) ==
  IF rule.src.capture THEN StartsWith(path, rule.src.prefix) ELSE path = rule.src.prefix

Capture(rule, path) ==
  IF rule.src.capture THEN SubSeq(path, Len(rule.src.prefix) + 1, Len(path)) ELSE <<>>

RuleDest(rule, path) ==
  IF rule.dest = No THEN path
  ELSE rule.dest[1].lit \o (IF rule.dest[1].capture THEN Capture(rule, path) ELSE <<>>)

\* a router in which a later matching rule overrides an earlier decision
RECURSIVE RouteFromLastMatch(_, _, _, _)
RouteFromLastMatch(path, routes, i, hdrs) ==
  IF i > Len(routes) THEN [dest |-> path, status |-> 0, headers |-> hdrs, matched |-> 0]
  ELSE IF ~RuleMatches(routes[i], path) THEN RouteFromLastMatch(path, routes, i + 1, hdrs)
  ELSE IF RouteFromLastMatch(path, routes, i + 1, Merge(hdrs, routes[i].headers)).matched # 0
    THEN RouteFromLastMatch(path, routes, i + 1, Merge(hdrs, routes[i].headers))
  ELSE [dest |-> RuleDest(routes[i], path), status |-> routes[i].status,
        headers |-> Merge(hdrs, routes[i].headers), matched |-> i]

\* a router that forgets the headers of the rules flagged to continue
RECURSIVE RouteFromOwnHeaders(_, _, _, _)
RouteFromOwnHeaders(path, routes, i, hdrs) ==
  IF i > Len(routes) THEN [dest |-> path, status |-> 0, headers |-> hdrs, matched |-> 0]
  ELSE IF ~RuleMatches(routes[i], path) THEN RouteFromOwnHeaders(path, routes, i + 1, hdrs)
  ELSE IF routes[i].continue /\ routes[i].status \notin {301, 302, 303}
    THEN RouteFromOwnHeaders(path, routes, i + 1, hdrs)
  ELSE [dest |-> RuleDest(routes[i], path), status |-> routes[i].status,
        headers |-> Merge(hdrs, routes[i].headers), matched |-> i]

RECURSIVE RouteFrom(_, _, _, _)
RouteFrom(path, routes, i, hdrs) ==
  IF i > Len(routes) THEN [dest |-> path, status |-> 0, headers |-> hdrs, matched |-> 0]
  ELSE IF ~RuleMatches(routes[i], path) THEN RouteFrom(path, routes, i + 1, hdrs)
  ELSE IF routes[i].continue /\ routes[i].status \notin {301, 302, 303}
    THEN RouteFrom(path, routes, i + 1, Merge(hdrs, routes[i].headers))
  ELSE [dest |-> RuleDest(routes[i], path), status |-> routes[i].status,
        headers |-> Merge(hdrs, routes[i].headers), matched |-> i]

devRouter(url, routes) == RouteFrom(url, routes, 1, NoHeaders)

\* the destructuring without its `status = 200` default
StatusAsReturned(status) == status

\* `status = 200` default of the destructuring in serveProjectAsNowV2
StatusOr200(status) == IF status = 0 THEN 200 ELSE status

\* --------------------------------------------------------- validation
\* validateEnvConfig: the names whose value starts with '@' and that the
\* local env does not define
MissingEnv(cfgEnv, localEnv) ==
  {name \in DOMAIN cfgEnv : cfgEnv[name][1] = "@" /\ name \notin DOMAIN localEnv}

\* new Error('Only `version: 2` is supported by `now dev`')
VersionError == [error |-> "Error", type |-> "version", missing |-> {}]

\* new Error('Secret env vars are not yet supported by `now dev`')
SecretError == [error |-> "Error", type |-> "secret", missing |-> {}]

\* validateEnvConfig(type, env, localEnv): what it throws, if anything
validateEnvConfig(type, cfgEnv, localEnv) ==
  IF Cardinality(MissingEnv(cfgEnv, localEnv)) >= 1
    THEN Some([error |-> "MissingDotenvVarsError", type |-> type,
               missing |-> MissingEnv(cfgEnv, localEnv)])
    ELSE No

\* validateNowConfig without the test of config.version
validateNowConfigAnyVersion(config, localEnv, localBuildEnv) ==
  IF validateEnvConfig(".env", config.env, localEnv) # No
    THEN validateEnvConfig(".env", config.env, localEnv)
  ELSE validateEnvConfig(".env.build", config.buildEnv, localBuildEnv)

\* validateNowConfig of the "stopping" class (report-error.js:189-199): what
\* it throws, if anything
validateNowConfig(config, localEnv, localBuildEnv) ==
  IF config.version # 2 THEN Some(VersionError)
  ELSE IF validateEnvConfig(".env", config.env, localEnv) # No
    THEN validateEnvConfig(".env", config.env, localEnv)
  ELSE validateEnvConfig(".env.build", config.buildEnv, localBuildEnv)

\* validateNowConfig of the "status" class (part_001:112-124): what it
\* throws, if anything
validateNowConfigStatus(config) ==
  IF config.version # 2 THEN Some(VersionError)
  ELSE IF \/ \E name \in DOMAIN config.env : config.env[name][1] = "@"
          \/ \E name \in DOMAIN config.buildEnv : config.buildEnv[name][1] = "@"
    THEN Some(SecretError)
  ELSE No

\* validateNowConfig of the "stopping" class: TRUE when it throws
ThrowsStopping(config, localEnv, localBuildEnv) ==
  validateNowConfig(config, localEnv, localBuildEnv) # No

\* validateNowConfig of the "status" class: TRUE when it throws
ThrowsStatus(config) == validateNowConfigStatus(config) # No

\* --------------------------------------------------------------- builders
\* the artifact type a builder produces
OutputType(use) ==
  IF use \in {"@now/node", "@now/go"} THEN "Lambda"
  ELSE IF use = "@now/static" THEN "FileFsRef"
  ELSE IF use = "@now/blob" THEN "FileBlob" ELSE "FileRef"

KeyOfEntry(src) == IF src = "fn.js" THEN FnKey ELSE IF src = "blog/index.html" THEN BlogKey ELSE TxtKey

\* the artifact a successful build of `build` produces at time t, as build id
Artifact(build, t, id) ==
  [type |-> OutputType(build.use), fn |-> OutputType(build.use) = "Lambda",
   buildEntry |-> build.src, buildTimestamp |-> t, id |-> id]


\* builder.version of the builder package: one generation-1 builder, the
\* others generation 2
BuilderVersion(use) == IF use = "@now/static" THEN 1 ELSE 2

\* ------------------------------------------------- Build Match Registry
\* getBuildMatches: one match per declared build
getBuildMatches(config) == IF config.builds = No THEN <<>> ELSE config.builds[1]

Sources(matches) == {matches[i].src : i \in 1..Len(matches)}

\* the adding loop without the test of `currentMatch.use`: every declared
\* match is set again
AddMatchesOverwrite(bm, matches, i) ==
  [src \in DOMAIN bm \cup Sources(matches) |->
     IF src \in Sources(matches)
       THEN matches[CHOOSE j \in 1..Len(matches) :
                      /\ matches[j].src = src
                      /\ \A k \in 1..Len(matches) : matches[k].src = src => k <= j]
       ELSE bm[src]]

\* the loop that adds the new matches (report-error.js:143-149)
RECURSIVE AddMatches(_, _, _)
AddMatches(bm, matches, i) ==
  IF i > Len(matches) THEN bm
  ELSE LET match == matches[i]
           keep == match.src \in DOMAIN bm /\ bm[match.src].use = match.use
       IN AddMatches(IF keep THEN bm ELSE (match.src :> match) @@ bm, matches, i + 1)

\* updateBuildMatches without the loop that deletes the stale matches
updateBuildMatchesAppendOnly(bm, matches) == AddMatches(bm, matches, 1)

\* a registry that is filled once and not reconciled again
updateBuildMatchesOnce(bm, matches) ==
  IF DOMAIN bm = {} THEN AddMatches(bm, matches, 1) ELSE bm

\* updateBuildMatches: delete the matches that no longer exist, then add
updateBuildMatches(bm, matches) ==
  AddMatches([src \in DOMAIN bm \cap Sources(matches) |-> bm[src]], matches, 1)

\* ------------------------------------------------------------- responses
NewRes == [ends |-> 0, statusCode |-> 200, code |-> "", headers |-> NoHeaders]

NowHeaders(nowRequestId) ==
  ("x-now-trace" :> "dev1") @@ ("x-now-id" :> nowRequestId) @@ ("x-now-cache" :> "MISS")

\* setResponseHeaders / writeResponseHeaders
setResponseHeaders(res, nowRequestId, headers) ==
  [res EXCEPT !.headers = Merge(@, Merge(headers, NowHeaders(nowRequestId)))]

\* res.end(...)
End(res, code) == [res EXCEPT !.ends = @ + 1, !.code = code]

\* sendError without `res.statusCode = statusCode`
sendErrorKeepsStatus(res, nowRequestId, code, statusCode) ==
  End(setResponseHeaders(res, nowRequestId, NoHeaders), code)

sendError(res, nowRequestId, code, statusCode) ==
  End(setResponseHeaders([res EXCEPT !.statusCode = statusCode], nowRequestId, NoHeaders), code)

send404(res, nowRequestId) == sendError(res, nowRequestId, "FILE_NOT_FOUND", 404)

\* the catch block without `res.statusCode = 500`
CatchErrorKeepsStatus(res) == IF res.ends = 0 THEN End(res, "error") ELSE res

\* the catch block of devServerHandler
CatchError(res) ==
  IF res.ends = 0 THEN End([res EXCEPT !.statusCode = 500], "error") ELSE res

\* generateRequestId: the trace id of the request being handled
generateRequestId(r) == "nowRequestId"

\* shouldRebuild(req)
shouldRebuild(noCache) == noCache

\* the two request headers shouldRebuild reads; "" is an absent header
CacheHeaders ==
  [pragma : {"", "no-cache"}, cacheControl : {"", "no-cache", "max-age=0"}]

\* shouldRebuild that reads the pragma header only
NoCachePragmaOnly(headers) == headers.pragma = "no-cache"

\* req.headers.pragma === 'no-cache' || req.headers['cache-control'] === 'no-cache'
NoCache(headers) == headers.pragma = "no-cache" \/ headers.cacheControl = "no-cache"

\* --------------------------------------------------------------- state
VARIABLES
  variant,          \* "stopping" (report-error.js) or "status" (part_001)
  nowJson,          \* content of the now.json file
  edits,            \* number of edits of now.json so far
  dotenv,           \* content of the .env file
  now,              \* Date.now()
  ticks,            \* number of clock ticks so far
  server,           \* http.Server: "created", "listening", "closing", "closed"
  startPc,          \* position of start()
  startCfg,         \* the nowJson local of start()
  status,           \* this.status ("status" class)
  stopping,         \* this.stopping ("stopping" class)
  env,              \* this.env ("stopping" class)
  buildMatches,     \* this.buildMatches ("stopping" class)
  inProgressBuilds, \* this.inProgressBuilds ("stopping" class)
  assets,           \* this.assets
  builds,           \* builder executions: 0 is the initial build, r the build of request r
  reqs,             \* the requests being handled
  responses,        \* the responses sent so far
  stops,            \* the calls of stop()
  destroyCalls,     \* number of destroy() calls per function artifact
  closeCalls,       \* number of server.close() calls
  callArgs,         \* arguments of a direct call of a function of the module
  callResult,       \* what that call returned or threw
  processEnv,       \* process.env
  originalEnv       \* this.originalEnv ("stopping" class)

callVars == <<callArgs, callResult>>

envVars == <<processEnv, originalEnv>>

vars == <<envVars, callVars, variant, nowJson, edits, dotenv, now, ticks, server, startPc, startCfg, status,
          stopping, env, buildMatches, inProgressBuilds, assets, builds, reqs, responses,
          stops, destroyCalls, closeCalls>>

NewReq == [pc |-> "new", url |-> <<>>, noCache |-> FALSE, cfg |-> No, dest |-> <<>>,
           asset |-> No, assetKey |-> <<>>, rebuild |-> No, res |-> NewRes]

NoBuild == [entry |-> "", key |-> <<>>, state |-> "none"]
NewStop == [pc |-> "idle", noop |-> FALSE, snapshot |-> {}, destroys |-> {}, close |-> "none"]

\* process.env when the server is constructed
HostEnv == "PATH" :> <<"host">>

\* the fields after the constructor has run
Constructed ==
  /\ originalEnv = processEnv
  /\ edits = 0
  /\ now = StartTime
  /\ ticks = 0
  /\ server = "created"
  /\ startPc = "new"
  /\ startCfg = No
  /\ status = "busy"
  /\ stopping = FALSE
  /\ env = NoHeaders
  /\ buildMatches = <<>>
  /\ inProgressBuilds = <<>>
  /\ assets = <<>>
  /\ builds = [b \in 0..MaxReq |-> NoBuild]
  /\ reqs = [r \in Reqs |-> NewReq]
  /\ responses = {}
  /\ stops = [s \in Stops |-> NewStop]
  /\ destroyCalls = <<>>
  /\ closeCalls = 0

\* no function of the module is being called directly
NoCall == callArgs = No /\ callResult = No

Init ==
  /\ variant \in {"stopping", "status"}
  /\ nowJson \in NowJsonFiles
  /\ dotenv \in (IF variant = "stopping" THEN DotenvFiles ELSE {NoHeaders})
  /\ processEnv = HostEnv
  /\ Constructed
  /\ NoCall

\* --------------------------------------------------------- environment
\* the developer edits now.json; the file is read by getNowJson only, so an
\* edit is taken right before a read
EditNowJson ==
  /\ edits < MaxEdits
  /\ \/ startPc = (IF variant = "stopping" THEN "getNowJson" ELSE "new")
     \/ \E r \in Reqs : reqs[r].pc = "getNowJson"
  /\ \E f \in NowJsonFiles \ {nowJson} : nowJson' = f
  /\ edits' = edits + 1
  /\ UNCHANGED <<envVars, callVars, variant, dotenv, now, ticks, server, startPc, startCfg, status,
                 stopping, env, buildMatches, inProgressBuilds, assets, builds, reqs, responses,
                 stops, destroyCalls, closeCalls>>

\* time passes; only the age of an artifact at a rebuild depends on the
\* clock, so a tick is taken right before a rebuild is requested or completes
Tick ==
  /\ ticks < MaxTicks
  /\ variant = "status"
  /\ \E r \in Reqs : reqs[r].pc = "build" \/ (reqs[r].pc = "getNowJson" /\ reqs[r].noCache)
  /\ now' = now + TickMs
  /\ ticks' = ticks + 1
  /\ UNCHANGED <<envVars, callVars, variant, nowJson, edits, dotenv, server, startPc, startCfg,
                 status, stopping, env, buildMatches, inProgressBuilds, assets, builds, reqs,
                 responses, stops, destroyCalls, closeCalls>>

\* validateNowConfig of the running class throws on `config`
Throws(config) ==
  IF variant = "stopping" THEN ThrowsStopping(config, env, NoHeaders) ELSE ThrowsStatus(config)

\* ---------------------------------------------------------------- start()
\* start(): Promise.all of the two getLocalEnv ("stopping" class)
StartGetLocalEnv ==
  /\ variant = "stopping"
  /\ startPc = "new"
  /\ env' = dotenv
  /\ startPc' = "getNowJson"
  /\ UNCHANGED <<envVars, callVars, variant, nowJson, edits, dotenv, now, ticks, server, startCfg,
                 status, stopping, buildMatches, inProgressBuilds, assets, builds, reqs, responses,
                 stops, destroyCalls, closeCalls>>

\* start(): await this.getNowJson()
StartGetNowJson ==
  /\ startPc = (IF variant = "stopping" THEN "getNowJson" ELSE "new")
  /\ IF nowJson # ENOENT /\ Throws(nowJson[1])
       THEN startPc' = "failed" /\ startCfg' = No
       ELSE /\ startCfg' = nowJson
            /\ startPc' = IF variant = "stopping" /\ nowJson # ENOENT
                            THEN "updateBuildMatches" ELSE "listen"
  /\ UNCHANGED <<envVars, callVars, variant, nowJson, edits, dotenv, now, ticks, server, status,
                 stopping, env, buildMatches, inProgressBuilds, assets, builds, reqs, responses,
                 stops, destroyCalls, closeCalls>>

\* start(): installBuilders, updateBuildMatches ("stopping" class); the
\* initial builds of the v1 builders are commented out (line 273)
StartUpdateBuildMatches ==
  /\ startPc = "updateBuildMatches"
  /\ buildMatches' = updateBuildMatches(buildMatches, getBuildMatches(startCfg[1]))
  /\ startPc' = "listen"
  /\ UNCHANGED <<envVars, callVars, variant, nowJson, edits, dotenv, now, ticks, server, startCfg,
                 status, stopping, env, inProgressBuilds, assets, builds, reqs, responses, stops,
                 destroyCalls, closeCalls>>

\* start(): listen; the "status" class then begins the initial build
StartListen ==
  /\ startPc = "listen"
  /\ server' = "listening"
  /\ IF variant = "status" /\ startCfg # No /\ startCfg[1].builds # No
       THEN /\ builds' = [builds EXCEPT ![0] = [entry |-> "*", key |-> <<>>, state |-> "running"]]
            /\ startPc' = "initialBuild"
            /\ status' = status
       ELSE /\ builds' = builds
            /\ startPc' = "done"
            /\ status' = IF variant = "status" THEN "idle" ELSE status
  /\ startCfg' = IF startPc' = "done" THEN No ELSE startCfg
  /\ UNCHANGED <<envVars, callVars, variant, nowJson, edits, dotenv, now, ticks, stopping, env,
                 buildMatches, inProgressBuilds, assets, reqs, responses, stops, destroyCalls,
                 closeCalls>>

\* buildUserProject: every declared build produces its artifact
InitialAssets(config, t) ==
  LET bs == getBuildMatches(config)
  IN [key \in {KeyOfEntry(bs[i].src) : i \in 1..Len(bs)} |->
        LET i == CHOOSE j \in 1..Len(bs) : KeyOfEntry(bs[j].src) = key
        IN Artifact(bs[i], t, 0)]

\* start(): the initial build completes, or fails and start() rejects
InitialBuildDone ==
  /\ startPc = "initialBuild"
  /\ \E ok \in BOOLEAN :
       IF ok THEN /\ assets' = InitialAssets(startCfg[1], now)
                  /\ builds' = [builds EXCEPT ![0].state = "ok"]
                  /\ status' = "idle"
                  /\ startPc' = "done"
             ELSE /\ assets' = assets
                  /\ builds' = [builds EXCEPT ![0].state = "failed"]
                  /\ status' = status
                  /\ startPc' = "failed"
  /\ startCfg' = No
  /\ UNCHANGED <<envVars, callVars, variant, nowJson, edits, dotenv, now, ticks, server, stopping,
                 env, buildMatches, inProgressBuilds, reqs, responses, stops, destroyCalls,
                 closeCalls>>


\* ------------------------------------------------------- request handling
fileVars == <<envVars, callVars, variant, nowJson, edits, dotenv, now, ticks>>
startVars == <<startPc, startCfg>>
stopVars == <<stops, destroyCalls, closeCalls>>

\* the handler has answered: res holds the response that was sent
Finish(req, res) == [req EXCEPT !.pc = "done", !.res = res]

\* the handler has returned and its locals are dead
DoneReq == [NewReq EXCEPT !.pc = "done"]

Settled(req) == IF req.pc = "done" THEN DoneReq ELSE req

Sent(req) == IF req.pc = "done" THEN {req.res} ELSE {}

Running(entry) == {b \in 0..MaxReq : builds[b].state = "running" /\ builds[b].entry = entry}

\* the stopping response without `res.setHeader('Connection', 'close')`
UnavailableKeepAlive(nowRequestId) == send404(NewRes, nowRequestId)

\* the response to a request that arrives while the server is stopping
\* (report-error.js:412-415)
Unavailable(nowRequestId) ==
  send404([NewRes EXCEPT !.headers = ("Connection" :> "close")], nowRequestId)

\* request r moves to `next`; a sent response is recorded
Step(r, next) ==
  /\ reqs' = [reqs EXCEPT ![r] = Settled(next)]
  /\ responses' = responses \cup Sent(next)

\* devServerHandler without the test of `this.status`
ArriveWhileBusy(r) ==
  /\ reqs[r].pc = "new"
  /\ IF r = 1 THEN TRUE ELSE reqs[r - 1].pc # "new"
  /\ server \in {"listening", "closing"}
  /\ \E in \in RequestInputs :
       LET req == [reqs[r] EXCEPT !.url = in.url, !.noCache = in.noCache]
       IN Step(r, IF variant = "stopping"
                    THEN IF stopping THEN Finish(req, Unavailable(generateRequestId(r)))
                         ELSE [req EXCEPT !.pc = "getNowJson"]
                    ELSE [req EXCEPT !.pc = "getNowJson"])
  /\ UNCHANGED <<fileVars, startVars, stopVars, server, status, stopping, env, buildMatches,
                 inProgressBuilds, assets, builds>>

\* devServerHandler up to its first await
Arrive(r) ==
  /\ reqs[r].pc = "new"
  /\ IF r = 1 THEN TRUE ELSE reqs[r - 1].pc # "new"
  /\ server \in {"listening", "closing"}
  /\ \E in \in RequestInputs :
       LET req == [reqs[r] EXCEPT !.url = in.url, !.noCache = in.noCache]
       IN Step(r, IF variant = "stopping"
                    THEN IF stopping THEN Finish(req, Unavailable(generateRequestId(r)))
                         ELSE [req EXCEPT !.pc = "getNowJson"]
                    ELSE IF status = "busy" THEN Finish(req, End(NewRes, "busy"))
                         ELSE [req EXCEPT !.pc = "getNowJson"])
  /\ UNCHANGED <<fileVars, startVars, stopVars, server, status, stopping, env, buildMatches,
                 inProgressBuilds, assets, builds>>

\* the switch on asset.type with a default case that only ends the response
ServeAssetDefaultEnds(req, nowRequestId, asset, assetKey) ==
  IF asset.type = "FileFsRef"
    THEN [req EXCEPT !.pc = "static",
                     !.res = setResponseHeaders(req.res, nowRequestId, NoHeaders)]
  ELSE IF asset.type = "FileBlob"
    THEN Finish(req, End(setResponseHeaders(req.res, nowRequestId,
                                            "Content-Length" :> "length"), "asset"))
  ELSE IF asset.type = "Lambda"
    THEN IF ~asset.fn
           THEN Finish(req, End([req.res EXCEPT !.statusCode = 500], "not built"))
           ELSE [req EXCEPT !.pc = "invoke", !.asset = Some(asset), !.assetKey = assetKey]
  ELSE Finish(req, End(req.res, ""))

\* the switch on asset.type of the "status" class (part_001:375-457)
ServeAsset(req, nowRequestId, asset, assetKey) ==
  IF asset.type = "FileFsRef"
    THEN [req EXCEPT !.pc = "static",
                     !.res = setResponseHeaders(req.res, nowRequestId, NoHeaders)]
  ELSE IF asset.type = "FileBlob"
    THEN Finish(req, End(setResponseHeaders(req.res, nowRequestId,
                                            "Content-Length" :> "length"), "asset"))
  ELSE IF asset.type = "Lambda"
    THEN IF ~asset.fn
           THEN Finish(req, End([req.res EXCEPT !.statusCode = 500], "not built"))
           ELSE [req EXCEPT !.pc = "invoke", !.asset = Some(asset), !.assetKey = assetKey]
  ELSE Finish(req, sendError(req.res, nowRequestId, "UNKNOWN_ASSET_TYPE", 500))

\* serveProjectAsNowV2 of the "status" class up to its first await
\* (part_001:322-373); pc "build" means executeBuild was called
ServeV2Status(req, nowRequestId, config, as, t, inFlight) ==
  LET dec == devRouter(req.url, config.routes)
      st == StatusOr200(dec.status)
      rd == resolveDest(as, dec.dest)
  IN IF isURL(dec.dest) THEN [req EXCEPT !.pc = "proxy"]
     ELSE IF st \in {301, 302, 303}
       THEN Finish(req, End([req.res EXCEPT !.statusCode = st], "redirect"))
     ELSE IF config.builds = No THEN [req EXCEPT !.pc = "ignoreList"]
     ELSE IF rd.asset = No THEN Finish(req, send404(req.res, nowRequestId))
     ELSE IF shouldRebuild(req.noCache) /\ rd.asset[1].buildEntry # ""
       THEN [req EXCEPT !.pc = "build", !.dest = dec.dest, !.asset = rd.asset,
                        !.assetKey = rd.assetKey,
                        !.rebuild = Some([age |-> t - rd.asset[1].buildTimestamp,
                                          inFlight |-> inFlight[rd.asset[1].buildEntry],
                                          invoked |-> TRUE])]
     ELSE ServeAsset(req, nowRequestId, rd.asset[1], rd.assetKey)

\* serveProjectAsNowV2 of the "stopping" class with the redirect branch
\* falling through to the final res.end() (a missing `return`)
ServeV2StoppingNoReturn(req, config) ==
  LET dec == devRouter(req.url, config.routes)
      st == StatusOr200(dec.status)
      res == [req.res EXCEPT !.headers = Merge(@, dec.headers)]
  IN IF isURL(dec.dest) THEN [req EXCEPT !.pc = "proxy", !.res = res]
     ELSE IF st \in {301, 302, 303}
       THEN Finish(req, End(End([res EXCEPT !.statusCode = st], "redirect"), ""))
     ELSE Finish(req, End(res, ""))

\* serveProjectAsNowV2 returning without any `res.end()`: the response stays
\* open
ServeV2StoppingNoEnd(req, config) == [req EXCEPT !.pc = "open"]

\* serveProjectAsNowV2 of the "stopping" class after updateBuildMatches
\* (report-error.js:480-506)
ServeV2Stopping(req, config) ==
  LET dec == devRouter(req.url, config.routes)
      st == StatusOr200(dec.status)
      res == [req.res EXCEPT !.headers = Merge(@, dec.headers)]
  IN IF isURL(dec.dest) THEN [req EXCEPT !.pc = "proxy", !.res = res]
     ELSE IF st \in {301, 302, 303}
       THEN Finish(req, End([res EXCEPT !.statusCode = st], "redirect"))
     ELSE Finish(req, End(res, ""))

Entries == {"fn.js", "blog/index.html", "data.js"}

\* devServerHandler after `await this.getNowJson()`
GetNowJson(r) ==
  /\ reqs[r].pc = "getNowJson"
  /\ LET req == reqs[r]
         id == generateRequestId(r)
         next ==
           IF nowJson # ENOENT /\ Throws(nowJson[1]) THEN Finish(req, CatchError(req.res))
           ELSE IF variant = "stopping"
             THEN IF nowJson = ENOENT
                    THEN [req EXCEPT !.pc = "static",
                                     !.res = setResponseHeaders(req.res, id, NoHeaders)]
                    ELSE [req EXCEPT !.pc = "updateBuildMatches", !.cfg = nowJson]
           ELSE IF nowJson = ENOENT THEN [req EXCEPT !.pc = "ignoreList"]
           ELSE ServeV2Status(req, id, nowJson[1], assets, now,
                              [e \in Entries \cup {""} |-> Running(e) # {}])
     IN /\ Step(r, next)
        /\ builds' = IF next.pc = "build"
                       THEN [builds EXCEPT ![r] = [entry |-> next.asset[1].buildEntry,
                                                   key |-> next.assetKey,
                                                   state |-> "running"]]
                       ELSE builds
        /\ status' = IF variant = "status" /\ next.pc \in {"done", "proxy"} THEN "idle" ELSE status
  /\ UNCHANGED <<fileVars, startVars, stopVars, server, stopping, env, buildMatches,
                 inProgressBuilds, assets>>

\* serveProjectAsNowV2 of the "stopping" class after `await
\* this.getProjectFiles()` and `await this.updateBuildMatches(nowJson)`
UpdateBuildMatches(r) ==
  /\ reqs[r].pc = "updateBuildMatches"
  /\ buildMatches' = updateBuildMatches(buildMatches, getBuildMatches(reqs[r].cfg[1]))
  /\ Step(r, ServeV2Stopping(reqs[r], reqs[r].cfg[1]))
  /\ UNCHANGED <<fileVars, startVars, stopVars, server, status, stopping, env,
                 inProgressBuilds, assets, builds>>

\* executeBuild: the artifact a successful rebuild of `asset` stores
ExecuteBuildOutput(asset, t, id) == [asset EXCEPT !.buildTimestamp = t, !.id = id]

\* `await executeBuild(nowJson, this, asset)` settles (part_001:364-373)
BuildDone(r) ==
  /\ reqs[r].pc = "build"
  /\ \E ok \in BOOLEAN :
       LET req == reqs[r]
           id == generateRequestId(r)
           as == IF ok THEN (req.assetKey :> ExecuteBuildOutput(req.asset[1], now, r)) @@ assets
                 ELSE assets
           rd == resolveDest(as, req.dest)
           next == IF ~ok THEN Finish(req, CatchError(req.res))
                   ELSE IF rd.asset = No THEN Finish(req, send404(req.res, id))
                   ELSE ServeAsset(req, id, rd.asset[1], rd.assetKey)
       IN /\ assets' = as
          /\ builds' = [builds EXCEPT ![r].state = IF ok THEN "ok" ELSE "failed"]
          /\ Step(r, next)
          /\ status' = IF next.pc = "done" THEN "idle" ELSE status
  /\ UNCHANGED <<fileVars, startVars, stopVars, server, stopping, env, buildMatches,
                 inProgressBuilds>>

\* the Lambda invocation settles (part_001:417-445)
InvokeDone(r) ==
  /\ reqs[r].pc = "invoke"
  /\ \E ok \in BOOLEAN :
       LET req == reqs[r]
           id == generateRequestId(r)
       IN Step(r, IF ok THEN Finish(req, End(setResponseHeaders(req.res, id, NoHeaders),
                                             "lambda"))
                  ELSE Finish(req, sendError(req.res, id, "NO_STATUS_CODE_FROM_LAMBDA", 502)))
  /\ status' = "idle"
  /\ UNCHANGED <<fileVars, startVars, stopVars, server, stopping, env, buildMatches,
                 inProgressBuilds, assets, builds>>

\* serveProjectAsStatic of the "status" class after `await createIgnoreList`
IgnoreListDone(r) ==
  /\ reqs[r].pc = "ignoreList"
  /\ \E ignored \in BOOLEAN :
       LET req == reqs[r]
           id == generateRequestId(r)
       IN /\ Step(r, IF ignored THEN Finish(req, send404(req.res, id))
                     ELSE [req EXCEPT !.pc = "static",
                                      !.res = setResponseHeaders(req.res, id, NoHeaders)])
          /\ status' = IF ignored THEN "idle" ELSE status
  /\ UNCHANGED <<fileVars, startVars, stopVars, server, stopping, env, buildMatches,
                 inProgressBuilds, assets, builds>>

\* serve-handler ends the response of serveStaticFile
StaticDone(r) ==
  /\ reqs[r].pc = "static"
  /\ Step(r, Finish(reqs[r], End(reqs[r].res, "static")))
  /\ status' = IF variant = "status" THEN "idle" ELSE status
  /\ UNCHANGED <<fileVars, startVars, stopVars, server, stopping, env, buildMatches,
                 inProgressBuilds, assets, builds>>

\* http-proxy relays the upstream response of proxyPass
ProxyDone(r) ==
  /\ reqs[r].pc = "proxy"
  /\ Step(r, Finish(reqs[r], End(reqs[r].res, "proxy")))
  /\ UNCHANGED <<fileVars, startVars, stopVars, server, status, stopping, env, buildMatches,
                 inProgressBuilds, assets, builds>>


\* ----------------------------------------------------------------- stop()
Count(f, x) == IF x \in DOMAIN f THEN f[x] ELSE 0

\* the function artifacts stop() tears down: asset.type === 'Lambda' && asset.fn
StopOps(as) == {<<k, as[k].id>> : k \in {key \in DOMAIN as : as[key].type = "Lambda" /\ as[key].fn}}

\* `if (this.stopping) return;` - only the "stopping" class has the guard
StopReturnsEarly == variant = "stopping" /\ stopping

\* stop() resuming as soon as the socket has closed (Promise.race-like)
PromiseRaceResolved(st) == st.close = "ok"

\* await Promise.all(ops) resolves
PromiseAllResolved(st) == st.destroys = {} /\ st.close = "ok"

\* await Promise.all(ops) rejects
PromiseAllRejected(st) == st.close = "err"

InFlight == {r \in Reqs : reqs[r].pc \notin {"new", "done"}}

\* stop() up to `await Promise.all(ops)`
StopCall(s) ==
  /\ stops[s].pc = "idle"
  /\ IF s = 1 THEN TRUE ELSE stops[s - 1].pc # "idle"
  /\ server # "created"
  /\ IF StopReturnsEarly
       THEN /\ stops' = [stops EXCEPT ![s].pc = "returned", ![s].noop = TRUE]
            /\ UNCHANGED <<stopping, destroyCalls, closeCalls, server>>
       ELSE LET ops == StopOps(assets)
            IN /\ stopping' = IF variant = "stopping" THEN TRUE ELSE stopping
               /\ destroyCalls' = [a \in DOMAIN destroyCalls \cup ops |->
                                     Count(destroyCalls, a) + IF a \in ops THEN 1 ELSE 0]
               /\ closeCalls' = closeCalls + 1
               /\ server' = IF server = "listening" THEN "closing" ELSE server
               /\ stops' = [stops EXCEPT ![s] =
                    [pc |-> "waiting", noop |-> FALSE,
                     snapshot |-> {<<k, assets[k].id>> :
                                     k \in {key \in DOMAIN assets :
                                              assets[key].type = "Lambda" /\ assets[key].fn}},
                     destroys |-> ops,
                     close |-> IF server = "listening" THEN "pending" ELSE "notRunning"]]
  /\ UNCHANGED <<fileVars, startVars, status, env, buildMatches, inProgressBuilds, assets,
                 builds, reqs, responses>>

\* `await Promise.all(ops)` after one of the ops has settled
Settle(st) ==
  IF st.pc # "waiting" THEN st
  ELSE IF PromiseAllRejected(st) THEN [st EXCEPT !.pc = "rejected"]
  ELSE IF PromiseAllResolved(st) THEN [st EXCEPT !.pc = "returned"]
  ELSE st

\* a destroy() promise of stop() resolves
DestroyDone(s) ==
  /\ \E a \in stops[s].destroys :
       stops' = [stops EXCEPT ![s] = Settle([stops[s] EXCEPT !.destroys = @ \ {a}])]
  /\ UNCHANGED <<fileVars, startVars, server, status, stopping, env, buildMatches,
                 inProgressBuilds, assets, builds, reqs, responses, destroyCalls, closeCalls>>

\* close(server): the callback of server.close fires once the connections
\* have ended, with an error when the server was not running
CloseDone(s) ==
  /\ stops[s].close \in {"pending", "notRunning"}
  /\ InFlight = {}
  /\ stops' = [stops EXCEPT ![s] =
                 Settle([stops[s] EXCEPT !.close = IF @ = "pending" THEN "ok" ELSE "err"])]
  /\ server' = "closed"
  /\ UNCHANGED <<fileVars, startVars, status, stopping, env, buildMatches, inProgressBuilds,
                 assets, builds, reqs, responses, destroyCalls, closeCalls>>

\* ------------------------------------------------------------------ Spec
Next ==
  \/ EditNowJson
  \/ Tick
  \/ StartGetLocalEnv
  \/ StartGetNowJson
  \/ StartUpdateBuildMatches
  \/ StartListen
  \/ InitialBuildDone
  \/ \E r \in Reqs : Arrive(r)
  \/ \E r \in Reqs : GetNowJson(r)
  \/ \E r \in Reqs : UpdateBuildMatches(r)
  \/ \E r \in Reqs : BuildDone(r)
  \/ \E r \in Reqs : InvokeDone(r)
  \/ \E r \in Reqs : IgnoreListDone(r)
  \/ \E r \in Reqs : StaticDone(r)
  \/ \E r \in Reqs : ProxyDone(r)
  \/ \E s \in Stops : StopCall(s)
  \/ \E s \in Stops : DestroyDone(s)
  \/ \E s \in Stops : CloseDone(s)

Spec == Init /\ [][Next]_vars


\* ------------------------------------------------------ request progress
\* start() and the request handlers alone, with the scheduling of the event
\* loop: a file read, an upstream call, a static file transfer or a Lambda
\* invocation that has been awaited settles, so the continuation after each
\* such await is weakly fair.  A builder run is given no such guarantee.
LiveFiles == {Some(CfgBase), Some(CfgNoBuilds), ENOENT}

InitLive ==
  /\ variant \in {"stopping", "status"}
  /\ nowJson \in LiveFiles
  /\ dotenv = NoHeaders
  /\ processEnv = HostEnv
  /\ Constructed
  /\ NoCall

NextLive ==
  \/ StartGetLocalEnv
  \/ StartGetNowJson
  \/ StartUpdateBuildMatches
  \/ StartListen
  \/ InitialBuildDone
  \/ \E r \in Reqs : Arrive(r)
  \/ \E r \in Reqs : GetNowJson(r)
  \/ \E r \in Reqs : UpdateBuildMatches(r)
  \/ \E r \in Reqs : BuildDone(r)
  \/ \E r \in Reqs : InvokeDone(r)
  \/ \E r \in Reqs : IgnoreListDone(r)
  \/ \E r \in Reqs : StaticDone(r)
  \/ \E r \in Reqs : ProxyDone(r)

FairLive ==
  \A r \in Reqs :
    /\ WF_vars(GetNowJson(r))
    /\ WF_vars(UpdateBuildMatches(r))
    /\ WF_vars(InvokeDone(r))
    /\ WF_vars(IgnoreListDone(r))
    /\ WF_vars(StaticDone(r))
    /\ WF_vars(ProxyDone(r))

SpecLive == InitLive /\ [][NextLive]_vars /\ FairLive

\* ------------------------------------------------ Build Match Registry
\* The DevServer of report-error.js driven through updateBuildMatches while
\* now.json is edited and the builders store their outputs in the public
\* field `assets`.
RegFn == [src |-> "fn.js", use |-> "@now/node", config |-> "a"]
RegFnGo == [src |-> "fn.js", use |-> "@now/go", config |-> "a"]
RegBlog == [src |-> "blog/index.html", use |-> "@now/static", config |-> "a"]
RegData == [src |-> "data.js", use |-> "@now/blob", config |-> "a"]
RegDataB == [src |-> "data.js", use |-> "@now/blob", config |-> "b"]

RegCfg(bs) == [CfgBase EXCEPT !.builds = Some(bs)]

RegFiles == {Some(RegCfg(<<RegFn, RegBlog, RegData>>)), Some(RegCfg(<<RegFnGo, RegDataB>>)),
             Some(RegCfg(<<RegData>>)), Some(RegCfg(<<RegFn, RegDataB>>))}

InitRegistry ==
  /\ variant = "stopping"
  /\ nowJson = Some(RegCfg(<<RegFn, RegBlog, RegData>>))
  /\ dotenv = NoHeaders
  /\ processEnv = HostEnv
  /\ Constructed
  /\ NoCall

\* the developer edits the builds of now.json
RegEditNowJson ==
  /\ \E f \in RegFiles \ {nowJson} : nowJson' = f
  /\ UNCHANGED <<envVars, callVars, variant, edits, dotenv, now, ticks, server, startPc, startCfg,
                 status, stopping, env, buildMatches, inProgressBuilds, assets, builds, reqs,
                 responses, stops, destroyCalls, closeCalls>>

\* updateBuildMatches(nowJson) (report-error.js:129-150)
RegUpdateBuildMatches ==
  /\ buildMatches' = updateBuildMatches(buildMatches, getBuildMatches(nowJson[1]))
  /\ UNCHANGED <<envVars, callVars, variant, nowJson, edits, dotenv, now, ticks, server, startPc,
                 startCfg, status, stopping, env, inProgressBuilds, assets, builds, reqs, responses,
                 stops, destroyCalls, closeCalls>>

\* a builder run for a registered match stores its output in `assets`
RegExecuteBuild ==
  /\ \E src \in DOMAIN buildMatches :
       assets' = (KeyOfEntry(src) :> Artifact(buildMatches[src], now, 0)) @@ assets
  /\ UNCHANGED <<envVars, callVars, variant, nowJson, edits, dotenv, now, ticks, server, startPc,
                 startCfg, status, stopping, env, buildMatches, inProgressBuilds, builds, reqs,
                 responses, stops, destroyCalls, closeCalls>>

NextRegistry ==
  \/ RegEditNowJson
  \/ RegUpdateBuildMatches
  \/ RegExecuteBuild

SpecRegistry == InitRegistry /\ [][NextRegistry]_vars

\* ------------------------------------------------- serveProjectAsNowV2
\* serveProjectAsNowV2 of either class called for one request, for route
\* tables that also hold a redirect rule whose destination is a URL.
UrlMoved == <<"/", "moved">>
RouteMoved == [src |-> [prefix |-> UrlMoved, capture |-> FALSE],
               dest |-> Some([lit |-> Upstream, capture |-> FALSE]),
               status |-> 302, headers |-> NoHeaders, continue |-> FALSE]

CfgMoved == [CfgBase EXCEPT !.routes = <<RouteMoved, RouteOld, RouteExt>>]

\* a build whose builder outputs an artifact of a type the switch of
\* serveProjectAsNowV2 has no case for
BuildRef == [src |-> "data.js", use |-> "@now/custom"]
CfgRef == [CfgBase EXCEPT !.builds = Some(<<BuildFn, BuildBlog, BuildRef>>)]

ServeFiles == {Some(CfgMoved), Some(CfgBase), Some(CfgOther), Some(CfgNoBuilds), Some(CfgRef)}
ServeUrls == Urls \cup {UrlMoved}

InitServe ==
  /\ variant \in {"stopping", "status"}
  /\ nowJson \in ServeFiles
  /\ dotenv = NoHeaders
  /\ processEnv = HostEnv
  /\ Constructed
  /\ NoCall

\* a builder run stores the output of a declared build in `assets`, with or
\* without the `buildEntry` of its source
ServeBuildOutput ==
  /\ reqs[1].pc = "new"
  /\ \E i \in 1..Len(getBuildMatches(nowJson[1])), entry \in BOOLEAN :
       LET b == getBuildMatches(nowJson[1])[i]
           output == IF entry THEN Artifact(b, now, 0)
                     ELSE [Artifact(b, now, 0) EXCEPT !.buildEntry = ""]
       IN assets' = (KeyOfEntry(b.src) :> output) @@ assets
  /\ UNCHANGED <<envVars, callVars, variant, nowJson, edits, dotenv, now, ticks, server, startPc,
                 startCfg, status, stopping, env, buildMatches, inProgressBuilds, builds, reqs,
                 responses, stops, destroyCalls, closeCalls>>

\* serveProjectAsNowV2(req, res, nowRequestId, nowJson) up to its first await
\* (report-error.js:480-506, part_001:328-373); callArgs keeps the request's
\* cache headers
ServeCall ==
  /\ reqs[1].pc = "new"
  /\ \E url \in ServeUrls, headers \in CacheHeaders :
       LET req == [NewReq EXCEPT !.url = url, !.noCache = NoCache(headers)]
       IN /\ reqs' = [reqs EXCEPT ![1] =
               IF variant = "stopping" THEN ServeV2Stopping(req, nowJson[1])
               ELSE ServeV2Status(req, generateRequestId(1), nowJson[1], assets, now,
                                  [e \in Entries \cup {""} |-> FALSE])]
          /\ callArgs' = Some(headers)
  /\ UNCHANGED <<envVars, callResult, variant, nowJson, edits, dotenv, now, ticks, server,
                 startPc, startCfg, status, stopping, env, buildMatches, inProgressBuilds, assets,
                 builds, responses, stops, destroyCalls, closeCalls>>

NextServe ==
  \/ ServeBuildOutput
  \/ ServeCall

SpecServe == InitServe /\ [][NextServe]_vars

\* ------------------------------------------------------------ resolveDest
\* resolveDest called on Asset Stores of up to MaxKeys artifacts
MaxKeys == 2

ResolveKeys == {<<"re", "index", ".js">>, <<"re", "/", "index", ".html">>,
                <<"re", "/", "index", ".js">>, <<"re">>, <<"index", ".html">>, <<"a", ".js">>}

ResolveDests == {<<"/", "re">>, <<"re">>, <<"re", "/">>, <<"/", "re", "/">>, <<"/">>,
                 <<"/", "a", ".js">>}

\* the key sequences of the stores: no key twice
KeySeqs ==
  {ks \in UNION {[1..n -> ResolveKeys] : n \in 0..MaxKeys} :
     \A i, j \in 1..Len(ks) : i # j => ks[i] # ks[j]}

\* the store that holds one static artifact per key, the i-th key holding
\* the artifact with id i
StoreOf(keys) ==
  [k \in {keys[i] : i \in 1..Len(keys)} |->
     [type |-> "FileFsRef", fn |-> FALSE, buildEntry |-> "", buildTimestamp |-> StartTime,
      id |-> CHOOSE i \in 1..Len(keys) : keys[i] = k]]

InitResolve ==
  /\ variant = "stopping"
  /\ nowJson = ENOENT
  /\ dotenv = NoHeaders
  /\ processEnv = HostEnv
  /\ Constructed
  /\ callArgs \in {Some([keys |-> ks, dest |-> d]) : ks \in KeySeqs, d \in ResolveDests}
  /\ callResult = No

\* resolveDest(assets, dest)
CallResolveDest ==
  /\ callArgs # No
  /\ callResult = No
  /\ callResult' = Some(resolveDestIn(callArgs[1].keys, StoreOf(callArgs[1].keys),
                                       callArgs[1].dest))
  /\ UNCHANGED <<envVars, callArgs, variant, nowJson, edits, dotenv, now, ticks, server, startPc,
                 startCfg, status, stopping, env, buildMatches, inProgressBuilds, assets, builds,
                 reqs, responses, stops, destroyCalls, closeCalls>>

NextResolve == CallResolveDest

SpecResolve == InitResolve /\ [][NextResolve]_vars

\* ------------------------------------------------------- env validation
\* validateEnvConfig of report-error.js and validateNowConfig of part_001
\* called on env configurations over three names
EnvNames == {"API_KEY", "DB_URL", "TOKEN"}

\* the `env` objects of now.json: some names, each with a secret reference
\* or a plain value
EnvConfigs == UNION {[names -> {Secret, Plain}] : names \in SUBSET EnvNames}

\* the parsed local env files
LocalEnvs == UNION {[names -> {Plain}] : names \in SUBSET EnvNames}

InitValidate ==
  /\ variant \in {"stopping", "status"}
  /\ nowJson = ENOENT
  /\ dotenv = NoHeaders
  /\ processEnv = HostEnv
  /\ Constructed
  /\ callArgs \in {Some([env |-> e, localEnv |-> l]) :
                     e \in EnvConfigs,
                     l \in (IF variant = "stopping" THEN LocalEnvs ELSE {NoHeaders})}
  /\ callResult = No

\* this.validateEnvConfig('.env', config.env, this.env) (report-error.js)
CallValidateEnvConfig ==
  /\ variant = "stopping"
  /\ callArgs # No
  /\ callResult = No
  /\ callResult' = Some(validateEnvConfig(".env", callArgs[1].env, callArgs[1].localEnv))
  /\ UNCHANGED <<envVars, callArgs, variant, nowJson, edits, dotenv, now, ticks, server, startPc,
                 startCfg, status, stopping, env, buildMatches, inProgressBuilds, assets, builds,
                 reqs, responses, stops, destroyCalls, closeCalls>>

\* this.validateNowConfig(config) (part_001) for a version 2 configuration
CallValidateNowConfig ==
  /\ variant = "status"
  /\ callArgs # No
  /\ callResult = No
  /\ callResult' = Some(validateNowConfigStatus([CfgBase EXCEPT !.env = callArgs[1].env]))
  /\ UNCHANGED <<envVars, callArgs, variant, nowJson, edits, dotenv, now, ticks, server, startPc,
                 startCfg, status, stopping, env, buildMatches, inProgressBuilds, assets, builds,
                 reqs, responses, stops, destroyCalls, closeCalls>>

NextValidate ==
  \/ CallValidateEnvConfig
  \/ CallValidateNowConfig

SpecValidate == InitValidate /\ [][NextValidate]_vars

\* --------------------------------------------------------- route decision
\* the first statement of serveProjectAsNowV2: devRouter(req.url,
\* nowJson.routes) and the destructuring of its result, for every route
\* table of up to MaxRoutes rules
MaxRoutes == 3

\* two more rules flagged to continue: one that only adds a header, and one
\* that carries a redirect status
RouteCache == [src |-> [prefix |-> <<"/", "old", "/">>, capture |-> TRUE],
               dest |-> No,
               status |-> 0, headers |-> ("cache-control" :> "no-cache"), continue |-> TRUE]
RouteGone == [src |-> [prefix |-> <<"/", "old", "/">>, capture |-> TRUE],
              dest |-> Some([lit |-> <<"/", "gone", "/">>, capture |-> TRUE]),
              status |-> 302, headers |-> ("location" :> "/gone"), continue |-> TRUE]

RouteRules == {RouteApi, RouteOld, RouteExt, RouteCache, RouteGone}
RouteTables == UNION {[1..n -> RouteRules] : n \in 0..MaxRoutes}

\* const {dest, status = 200, headers = {}, matched_route} = devRouter(...)
Destructure(decision) ==
  [dest |-> decision.dest, status |-> StatusOr200(decision.status),
   headers |-> decision.headers, matched_route |-> decision.matched]

InitRoute ==
  /\ variant \in {"stopping", "status"}
  /\ nowJson = ENOENT
  /\ dotenv = NoHeaders
  /\ processEnv = HostEnv
  /\ Constructed
  /\ callArgs \in {Some([url |-> u, routes |-> t]) : u \in Urls, t \in RouteTables}
  /\ callResult = No

CallDevRouter ==
  /\ callResult = No
  /\ callResult' = Some(Destructure(devRouter(callArgs[1].url, callArgs[1].routes)))
  /\ UNCHANGED <<envVars, callArgs, variant, nowJson, edits, dotenv, now, ticks, server, startPc,
                 startCfg, status, stopping, env, buildMatches, inProgressBuilds, assets, builds,
                 reqs, responses, stops, destroyCalls, closeCalls>>

NextRoute == CallDevRouter

SpecRoute == InitRoute /\ [][NextRoute]_vars

\* ------------------------------------------------------ build environment
\* applyBuildEnv and restoreOriginalEnv of report-error.js around a build
\* batch whose builders write to process.env
MaxBuilderWrites == 1

BuildEnvNames == {"PATH", "API"}
BuilderEnvNames == {"PATH", "TMP"}

\* the `build.env` objects of now.json and the parsed .env.build files
BuildEnvs == UNION {[names -> {Plain}] : names \in SUBSET BuildEnvNames}
LocalBuildEnvs == UNION {[names -> {<<"local">>}] : names \in SUBSET BuildEnvNames}
HostEnvs == UNION {[names -> {<<"host">>}] : names \in SUBSET {"PATH", "HOME"}}

\* restoreOriginalEnv without the loop that deletes the new variables
restoreOriginalEnvNoDelete(penv, orig) == Merge(penv, orig)

\* restoreOriginalEnv (report-error.js:232-239): process.env afterwards
restoreOriginalEnv(penv, orig) ==
  Merge([key \in DOMAIN penv \cap DOMAIN orig |-> penv[key]], orig)

\* applyBuildEnv (report-error.js:223-226): process.env afterwards
applyBuildEnv(penv, buildEnv, thisBuildEnv) == Merge(Merge(penv, buildEnv), thisBuildEnv)

InitEnv ==
  /\ variant = "stopping"
  /\ nowJson = ENOENT
  /\ dotenv = NoHeaders
  /\ processEnv \in HostEnvs
  /\ Constructed
  /\ callArgs \in {Some([buildEnv |-> b, thisBuildEnv |-> l, writes |-> 0]) :
                     b \in BuildEnvs, l \in LocalBuildEnvs}
  /\ callResult = No

\* this.applyBuildEnv(nowJson)
CallApplyBuildEnv ==
  /\ callResult = No
  /\ processEnv' = applyBuildEnv(processEnv, callArgs[1].buildEnv, callArgs[1].thisBuildEnv)
  /\ callResult' = Some([phase |-> "applied", before |-> processEnv'])
  /\ UNCHANGED <<originalEnv, callArgs, variant, nowJson, edits, dotenv, now, ticks, server,
                 startPc, startCfg, status, stopping, env, buildMatches, inProgressBuilds, assets,
                 builds, reqs, responses, stops, destroyCalls, closeCalls>>

\* a builder, which runs in the same process, sets or deletes a variable
BuilderWritesEnv ==
  /\ callResult # No
  /\ callResult[1].phase = "applied"
  /\ callArgs[1].writes < MaxBuilderWrites
  /\ \E name \in BuilderEnvNames :
       \/ processEnv' = Merge(processEnv, name :> <<"builder">>)
       \/ /\ name \in DOMAIN processEnv
          /\ processEnv' = [key \in DOMAIN processEnv \ {name} |-> processEnv[key]]
  /\ callArgs' = Some([callArgs[1] EXCEPT !.writes = @ + 1])
  /\ callResult' = Some([callResult[1] EXCEPT !.before = processEnv'])
  /\ UNCHANGED <<originalEnv, variant, nowJson, edits, dotenv, now, ticks, server,
                 startPc, startCfg, status, stopping, env, buildMatches, inProgressBuilds, assets,
                 builds, reqs, responses, stops, destroyCalls, closeCalls>>

\* this.restoreOriginalEnv()
CallRestoreOriginalEnv ==
  /\ callResult # No
  /\ callResult[1].phase = "applied"
  /\ processEnv' = restoreOriginalEnv(processEnv, originalEnv)
  /\ callResult' = Some([callResult[1] EXCEPT !.phase = "restored"])
  /\ UNCHANGED <<originalEnv, callArgs, variant, nowJson, edits, dotenv, now, ticks, server,
                 startPc, startCfg, status, stopping, env, buildMatches, inProgressBuilds, assets,
                 builds, reqs, responses, stops, destroyCalls, closeCalls>>

NextEnv ==
  \/ CallApplyBuildEnv
  \/ BuilderWritesEnv
  \/ CallRestoreOriginalEnv

SpecEnv == InitEnv /\ [][NextEnv]_vars

\* ------------------------------------------------------------ projects rm
\* `run` of the projects command (part_003:189-226) for the subcommand rm.
\* callArgs holds the arguments after the subcommand; callResult holds the
\* position of `run`, the projects the API has, what was written to stdout
\* and stderr, the exit code and how the DELETE request settled.
MaxArgs == 2

ProjectNames == {"my-project", "other", "third"}
RmArgs == UNION {[1..n -> ProjectNames] : n \in 0..MaxArgs}

\* what the user types at the confirmation prompt
Answers == {"y", "Y", " y", "n", "yes", ""}

\* d.toString().trim().toLowerCase() === 'y'
readConfirmation(answer) == answer \in {"y", "Y", " y"}

\* the ways `client.fetch(..., {method: 'DELETE'})` settles: fulfilled, or
\* rejected with an error that has a status, or with one that has none
FetchOutcomes(name, projects) ==
  (IF name \in projects THEN {[ok |-> TRUE, status |-> 200]}
   ELSE {[ok |-> FALSE, status |-> 404]})
  \cup {[ok |-> FALSE, status |-> 403], [ok |-> FALSE, status |-> 500],
        [ok |-> FALSE, status |-> 0]}

RmState(pc, projects, stdout, stderr, exitCode, fetched) ==
  [pc |-> pc, projects |-> projects, stdout |-> stdout, stderr |-> stderr,
   exitCode |-> exitCode, fetched |-> fetched]

InitProjectsRm ==
  /\ variant = "stopping"
  /\ nowJson = ENOENT
  /\ dotenv = NoHeaders
  /\ processEnv = HostEnv
  /\ Constructed
  /\ callArgs \in {Some(args) : args \in RmArgs}
  /\ callResult \in {Some(RmState("rm", projects, <<>>, <<>>, No, No)) :
                       projects \in SUBSET ProjectNames}

RmUnchanged ==
  UNCHANGED <<envVars, callArgs, variant, nowJson, edits, dotenv, now, ticks, server, startPc,
              startCfg, status, stopping, env, buildMatches, inProgressBuilds, assets, builds,
              reqs, responses, stops, destroyCalls, closeCalls>>

\* `if (args.length !== 1)`
RmCheckArgs ==
  /\ callResult[1].pc = "rm"
  /\ callResult' =
       IF Len(callArgs[1]) # 1
         THEN Some([callResult[1] EXCEPT !.pc = "exited", !.exitCode = Some(1),
                      !.stderr = Append(@, "Invalid number of arguments")])
         ELSE Some([callResult[1] EXCEPT !.pc = "readConfirmation"])
  /\ RmUnchanged

\* `const yes = await readConfirmation(name)`
RmReadConfirmation ==
  /\ callResult[1].pc = "readConfirmation"
  /\ \E answer \in Answers :
       callResult' =
         IF readConfirmation(answer)
           THEN Some([callResult[1] EXCEPT !.pc = "fetch"])
           ELSE Some([callResult[1] EXCEPT !.pc = "exited", !.exitCode = Some(0),
                        !.stderr = Append(@, "User abort")])
  /\ RmUnchanged

\* the DELETE request settles; the catch block and the rest of the branch
RmFetchSettled ==
  /\ callResult[1].pc = "fetch"
  /\ \E outcome \in FetchOutcomes(callArgs[1][1], callResult[1].projects) :
       LET st == [callResult[1] EXCEPT
                    !.fetched = Some(outcome),
                    !.projects = IF outcome.ok THEN @ \ {callArgs[1][1]} ELSE @]
       IN callResult' =
            IF ~outcome.ok /\ outcome.status = 404
              THEN Some([st EXCEPT !.pc = "exited", !.exitCode = Some(1),
                           !.stderr = Append(@, "No such project exists")])
              ELSE Some([st EXCEPT !.pc = "returned", !.stdout = Append(@, "Success")])
  /\ RmUnchanged

NextProjectsRm ==
  \/ RmCheckArgs
  \/ RmReadConfirmation
  \/ RmFetchSettled

SpecProjectsRm == InitProjectsRm /\ [][NextProjectsRm]_vars

\* ------------------------------------------------------- getLinkedProject
\* getLinkedProject and getOrg of link.ts.  callArgs holds the content of
\* .now/project.json and what the API knows; callResult holds the position
\* of the call, the two promises of Promise.all and the outcome.
TeamOrg == <<"team_", "1">>
UserOrg == <<"user", "1">>
OtherOrg == <<"user", "2">>

\* the link file: missing, unreadable, not JSON, or a ProjectFolderLink
LinkFiles ==
  {[kind |-> "ENOENT"], [kind |-> "EACCES"], [kind |-> "unparsable"]}
  \cup {[kind |-> "link", orgId |-> o, projectId |-> "prj_1"] : o \in {TeamOrg, UserOrg, OtherOrg}}

\* the API: the teams and projects that exist; the user is UserOrg
LinkInputs ==
  {[file |-> f, teams |-> t, projects |-> p] :
     f \in LinkFiles, t \in SUBSET {TeamOrg}, p \in SUBSET {"prj_1"}}

Pending == [state |-> "pending"]
Rejected == [state |-> "rejected"]
Value(v) == [state |-> "fulfilled", value |-> v]

\* getOrg(client, orgId): the org, or null (No)
getOrg(orgId, teams) ==
  IF StartsWith(orgId, <<"team_">>)
    THEN IF orgId \in teams THEN Some([id |-> orgId, slug |-> "team"]) ELSE No
  ELSE IF UserOrg # orgId THEN No
  ELSE Some([id |-> orgId, slug |-> "username"])

\* getProjectByIdOrName: the project or a ProjectNotFound
getProjectByIdOrName(projectId, projects) ==
  IF projectId \in projects THEN [id |-> projectId] ELSE [notFound |-> projectId]

ProjectNotFound(project) == "notFound" \in DOMAIN project

Returned(org, project) == [kind |-> "returned", org |-> org, project |-> project]
Thrown(error) == [kind |-> "thrown", error |-> error]

\* the test of the pair without `|| org === null`
LinkedPairProjectOnly(org, project) ==
  IF ProjectNotFound(project) THEN Returned(No, No) ELSE Returned(org, Some(project))

\* `if (project instanceof ProjectNotFound || org === null) return [null, null]`
LinkedPair(org, project) ==
  IF ProjectNotFound(project) \/ org = No THEN Returned(No, No)
  ELSE Returned(org, Some(project))

\* the catch block for an error with the given code or name
LinkCatch(error) ==
  IF error = "ENOENT" THEN Returned(No, No)
  ELSE IF error = "SyntaxError" THEN Thrown("settings could not be retrieved")
  ELSE Thrown(error)

InitLink ==
  /\ variant = "stopping"
  /\ nowJson = ENOENT
  /\ dotenv = NoHeaders
  /\ processEnv = HostEnv
  /\ Constructed
  /\ callArgs \in {Some(in) : in \in LinkInputs}
  /\ callResult = Some([pc |-> "readFile", org |-> Pending, project |-> Pending, out |-> No])

LinkUnchanged ==
  UNCHANGED <<envVars, callArgs, variant, nowJson, edits, dotenv, now, ticks, server, startPc,
              startCfg, status, stopping, env, buildMatches, inProgressBuilds, assets, builds,
              reqs, responses, stops, destroyCalls, closeCalls>>

\* `await readFile(...)` settles and the content is parsed
LinkReadFile ==
  /\ callResult[1].pc = "readFile"
  /\ LET kind == callArgs[1].file.kind
     IN callResult' =
          IF kind = "link" THEN Some([callResult[1] EXCEPT !.pc = "Promise.all"])
          ELSE Some([callResult[1] EXCEPT
                       !.pc = "settled",
                       !.out = Some(LinkCatch(IF kind = "unparsable" THEN "SyntaxError"
                                              ELSE kind))])
  /\ LinkUnchanged

\* getOrg settles: with its value, or rejected because the API call failed
LinkGetOrg ==
  /\ callResult[1].pc = "Promise.all"
  /\ callResult[1].org = Pending
  /\ \E ok \in BOOLEAN :
       callResult' = Some([callResult[1] EXCEPT !.org =
         IF ok THEN Value(getOrg(callArgs[1].file.orgId, callArgs[1].teams)) ELSE Rejected])
  /\ LinkUnchanged

\* getProjectByIdOrName settles
LinkGetProject ==
  /\ callResult[1].pc = "Promise.all"
  /\ callResult[1].project = Pending
  /\ \E ok \in BOOLEAN :
       callResult' = Some([callResult[1] EXCEPT !.project =
         IF ok THEN Value(getProjectByIdOrName(callArgs[1].file.projectId, callArgs[1].projects))
         ELSE Rejected])
  /\ LinkUnchanged

\* Promise.all settles: rejected with the first rejection, else fulfilled
\* with both values
LinkPromiseAll ==
  /\ callResult[1].pc = "Promise.all"
  /\ LET org == callResult[1].org
         project == callResult[1].project
     IN \/ /\ Rejected \in {org, project}
           /\ callResult' = Some([callResult[1] EXCEPT !.pc = "settled",
                                    !.out = Some(LinkCatch("API_ERROR"))])
        \/ /\ org.state = "fulfilled"
           /\ project.state = "fulfilled"
           /\ callResult' = Some([callResult[1] EXCEPT !.pc = "settled",
                                    !.out = Some(LinkedPair(org.value, project.value))])
  /\ LinkUnchanged

NextLink ==
  \/ LinkReadFile
  \/ LinkGetOrg
  \/ LinkGetProject
  \/ LinkPromiseAll

SpecLink == InitLink /\ [][NextLink]_vars

\* ------------------------------------------------- isReady/isFailed/isDone
\* The three predicates of part_006:195-210 on a deployment or build.  A
\* state name is a sequence of tokens, <<>> an absent (or empty) field.
StateNames ==
  {<<>>, <<"READY">>, <<"ERROR">>, <<"BUILD", "_ERROR">>, <<"BUILDING">>, <<"QUEUED">>,
   <<"CANCELED">>}

Deployments == [readyState : StateNames, state : StateNames]

EndsWith(name, suffix) ==
  Len(name) >= Len(suffix) /\ SubSeq(name, Len(name) - Len(suffix) + 1, Len(name)) = suffix

isReady(d) == d.readyState = <<"READY">> \/ d.state = <<"READY">>

isFailed(d) ==
  IF d.readyState # <<>>
    THEN EndsWith(d.readyState, <<"_ERROR">>) \/ d.readyState = <<"ERROR">>
    ELSE EndsWith(d.state, <<"_ERROR">>) \/ d.state = <<"ERROR">>

isDone(d) == isReady(d) \/ isFailed(d)

InitDeployment ==
  /\ variant = "stopping"
  /\ nowJson = ENOENT
  /\ dotenv = NoHeaders
  /\ processEnv = HostEnv
  /\ Constructed
  /\ callArgs \in {Some(d) : d \in Deployments}
  /\ callResult = Some([isReady |-> No, isFailed |-> No, isDone |-> No])

DeploymentUnchanged ==
  UNCHANGED <<envVars, callArgs, variant, nowJson, edits, dotenv, now, ticks, server, startPc,
              startCfg, status, stopping, env, buildMatches, inProgressBuilds, assets, builds,
              reqs, responses, stops, destroyCalls, closeCalls>>

CallIsReady ==
  /\ callResult[1].isReady = No
  /\ callResult' = Some([callResult[1] EXCEPT !.isReady = Some(isReady(callArgs[1]))])
  /\ DeploymentUnchanged

CallIsFailed ==
  /\ callResult[1].isFailed = No
  /\ callResult' = Some([callResult[1] EXCEPT !.isFailed = Some(isFailed(callArgs[1]))])
  /\ DeploymentUnchanged

CallIsDone ==
  /\ callResult[1].isDone = No
  /\ callResult' = Some([callResult[1] EXCEPT !.isDone = Some(isDone(callArgs[1]))])
  /\ DeploymentUnchanged

NextDeployment ==
  \/ CallIsReady
  \/ CallIsFailed
  \/ CallIsDone

SpecDeployment == InitDeployment /\ [][NextDeployment]_vars

\* ---------------------------------------------------------- waitForPrompt
\* waitForPrompt of part_005.  callArgs holds rawAssertion (a string);
\* callResult holds the promise the async function returned, the promise it
\* constructs in its body, the timer, the listeners, the clock and the
\* chunks the child has emitted since the call.
PROMPT_TIMEOUT == 3000
MaxChunks == 2

PromptTick == PROMPT_TIMEOUT \div 3
MaxElapsed == PROMPT_TIMEOUT + PromptTick

\* a chunk is the sequence of its words
Chunks == {<<"?", "Set up">>, <<"Error!">>, <<>>}
RawAssertions == {"Set up", "Error!"}

\* (chunk) => chunk.includes(rawAssertion)
assertion(rawAssertion, chunk) == \E i \in 1..Len(chunk) : chunk[i] = rawAssertion

InitPrompt ==
  /\ variant = "stopping"
  /\ nowJson = ENOENT
  /\ dotenv = NoHeaders
  /\ processEnv = HostEnv
  /\ Constructed
  /\ callArgs \in {Some(raw) : raw \in RawAssertions}
  /\ callResult = Some([pc |-> "new", returned |-> "none", inner |-> "none", timer |-> FALSE,
                         listening |-> FALSE, elapsed |-> 0, chunks |-> <<>>])

PromptUnchanged ==
  UNCHANGED <<envVars, callArgs, variant, nowJson, edits, dotenv, now, ticks, server, startPc,
              startCfg, status, stopping, env, buildMatches, inProgressBuilds, assets, builds,
              reqs, responses, stops, destroyCalls, closeCalls>>

\* waitForPrompt(cp, rawAssertion) runs to the end of its body: the promise
\* it constructs is neither returned nor awaited, so the promise of the
\* async function is fulfilled when the body ends
CallWaitForPrompt ==
  /\ callResult[1].pc = "new"
  /\ callResult' = Some([callResult[1] EXCEPT !.pc = "called", !.inner = "pending",
                            !.timer = TRUE, !.listening = TRUE, !.returned = "fulfilled"])
  /\ PromptUnchanged

\* the child writes a chunk to stdout or stderr; `listener` runs if attached
EmitChunk ==
  /\ callResult[1].pc = "called"
  /\ Len(callResult[1].chunks) < MaxChunks
  /\ \E stream \in {"stdout", "stderr"}, chunk \in Chunks :
       LET st == [callResult[1] EXCEPT !.chunks = Append(@, [stream |-> stream, chunk |-> chunk])]
       IN callResult' =
            IF st.listening /\ assertion(callArgs[1], chunk)
              THEN Some([st EXCEPT !.listening = FALSE, !.timer = FALSE,
                           !.inner = IF @ = "pending" THEN "fulfilled" ELSE @])
              ELSE Some(st)
  /\ PromptUnchanged

\* time passes
PromptAdvance ==
  /\ callResult[1].pc = "called"
  /\ callResult[1].elapsed < MaxElapsed
  /\ callResult[1].timer => callResult[1].elapsed < PROMPT_TIMEOUT
  /\ callResult' = Some([callResult[1] EXCEPT !.elapsed = @ + PromptTick])
  /\ PromptUnchanged

\* the callback of setTimeout(..., PROMPT_TIMEOUT)
PromptTimeout ==
  /\ callResult[1].timer
  /\ callResult[1].elapsed >= PROMPT_TIMEOUT
  /\ callResult' = Some([callResult[1] EXCEPT !.timer = FALSE,
                            !.inner = IF @ = "pending" THEN "rejected" ELSE @])
  /\ PromptUnchanged

NextPrompt ==
  \/ CallWaitForPrompt
  \/ EmitChunk
  \/ PromptAdvance
  \/ PromptTimeout

SpecPrompt == InitPrompt /\ [][NextPrompt]_vars

\* ---------------------------------------------------------------- claims

\* C1: at any time at most one build of an entrypoint is executing.
C1_AtMostOneBuildPerEntrypoint == \A e \in Entries : Cardinality(Running(e)) <= 1

\* C2: two requests that concurrently demand a build of the same entrypoint
\* are served by one execution of the builder.
C2_ConcurrentDemandsShareOneBuild ==
  \A r1, r2 \in Reqs :
    (r1 < r2 /\ reqs[r1].pc = "build" /\ reqs[r2].pc = "build"
       /\ reqs[r1].asset[1].buildEntry = reqs[r2].asset[1].buildEntry)
    => Cardinality({b \in {r1, r2} : builds[b].state = "running"}) = 1

\* C3: a forced rebuild of an artifact younger than 2 seconds does not invoke
\* the builder; one of an artifact of 2 seconds or more, with no build in
\* flight, does.
C3_StalenessWindow ==
  \A r \in Reqs :
    reqs[r].rebuild # No =>
      /\ reqs[r].rebuild[1].age < TwoSeconds => ~reqs[r].rebuild[1].invoked
      /\ (reqs[r].rebuild[1].age >= TwoSeconds /\ ~reqs[r].rebuild[1].inFlight)
           => reqs[r].rebuild[1].invoked

ServerError(res) == res.statusCode >= 500 /\ res.statusCode <= 599 /\ res.ends = 1

\* C5: when the build a request awaits fails, that request alone is answered,
\* with a 500-class response; the Asset Store is unchanged, no other build is
\* started and the server goes on serving.
C5_BuildFailure ==
  [][\A r \in Reqs :
       (builds[r].state = "running" /\ builds'[r].state = "failed") =>
         /\ reqs'[r].pc = "done"
         /\ \E res \in responses' : ServerError(res)
         /\ \A res \in responses' \ responses : ServerError(res)
         /\ \A q \in Reqs \ {r} : reqs'[q] = reqs[q]
         /\ assets' = assets
         /\ \A b \in (0..MaxReq) \ {r} : builds'[b] = builds[b]
         /\ status' # "busy"
         /\ server' = server]_vars

C5_Witness ==
  /\ \E r \in Reqs : builds[r].state = "failed" /\ reqs[r].pc = "done"
  /\ \E q \in Reqs : builds[q].state = "ok" /\ reqs[q].pc = "done"
  /\ \E res \in responses : res.code = "lambda" /\ res.statusCode = 200

\* C6: every response is ended exactly once, on every path.
C6_EndedExactlyOnce ==
  /\ \A res \in responses : res.ends = 1
  /\ \A r \in Reqs : reqs[r].pc # "done" => reqs[r].res.ends = 0

C6_Witness ==
  /\ \E res \in responses : res.code = "error" /\ res.ends = 1
  /\ \E res \in responses : res.code = "redirect" /\ res.ends = 1

IsUnavailable(res) ==
  /\ res.statusCode = 404
  /\ res.code = "FILE_NOT_FOUND"
  /\ res.ends = 1
  /\ "Connection" \in DOMAIN res.headers
  /\ res.headers["Connection"] = "close"

\* C7: once stop() has been called on the server with the `stopping` flag, a
\* newly arriving request is answered at once with 404 FILE_NOT_FOUND and
\* `Connection: close`; nothing is loaded, reconciled or built for it.
C7_StoppingShortCircuits ==
  [][\A r \in Reqs :
       (variant = "stopping" /\ stops[1].pc # "idle"
          /\ reqs[r].pc = "new" /\ reqs'[r].pc # "new") =>
         /\ reqs'[r] = DoneReq
         /\ \E res \in responses' : IsUnavailable(res)
         /\ \A res \in responses' \ responses : IsUnavailable(res)
         /\ buildMatches' = buildMatches
         /\ builds' = builds
         /\ assets' = assets]_vars

C7_Witness ==
  /\ variant = "stopping"
  /\ stops[1].pc # "idle"
  /\ \E res \in responses : IsUnavailable(res)

\* C8: a second call of stop() calls destroy() on no function artifact and
\* does not close the listening socket again.
C8_StopIdempotent ==
  /\ closeCalls <= 1
  /\ \A a \in DOMAIN destroyCalls : destroyCalls[a] <= 1

\* C9: a stop() that shuts the server down returns only after destroy() was
\* called on every function artifact of the Asset Store and all of these
\* teardowns and the close of the listening socket have completed.
C9_StopWaitsForTeardown ==
  \A s \in Stops :
    (stops[s].pc = "returned" /\ ~stops[s].noop) =>
      /\ \A a \in stops[s].snapshot : Count(destroyCalls, a) >= 1 /\ a \notin stops[s].destroys
      /\ stops[s].destroys = {}
      /\ stops[s].close = "ok"
      /\ server = "closed"

C9_Witness ==
  \E s \in Stops : stops[s].pc = "returned" /\ ~stops[s].noop /\ stops[s].snapshot # {}

DeclaredSources(config) ==
  IF config.builds = No THEN {} ELSE {config.builds[1][i].src : i \in 1..Len(config.builds[1])}

\* C10: after every reconcile the source patterns of the Build Match Registry
\* are exactly the declared source patterns.
C10_RegistryEqualsDeclared ==
  [][/\ (startPc = "updateBuildMatches" /\ startPc' # "updateBuildMatches")
          => DOMAIN buildMatches' = DeclaredSources(startCfg[1])
     /\ \A r \in Reqs :
          (reqs[r].pc = "updateBuildMatches" /\ reqs'[r].pc # "updateBuildMatches")
            => DOMAIN buildMatches' = DeclaredSources(reqs[r].cfg[1])]_vars

C10_Witness ==
  /\ variant = "stopping"
  /\ \E res \in responses : "x-api" \in DOMAIN res.headers
  /\ DOMAIN buildMatches = {"fn.js", "data.js"}

\* the declared builds of the configuration on disk
Declared == getBuildMatches(nowJson[1])

\* C11: when reconcile removes the registry entry of a pattern, destroy() is
\* called on the function artifact of that pattern and the artifact leaves
\* the Asset Store; artifacts of the patterns still declared are untouched.
C11_RemovalTearsDown ==
  [][/\ \A src \in DOMAIN buildMatches \ DOMAIN buildMatches' :
          (KeyOfEntry(src) \in DOMAIN assets /\ assets[KeyOfEntry(src)].type = "Lambda") =>
            /\ KeyOfEntry(src) \notin DOMAIN assets'
            /\ Count(destroyCalls', <<KeyOfEntry(src), assets[KeyOfEntry(src)].id>>)
                 > Count(destroyCalls, <<KeyOfEntry(src), assets[KeyOfEntry(src)].id>>)
     /\ \A src \in DOMAIN buildMatches \cap DOMAIN buildMatches' :
          buildMatches'[src].use = buildMatches[src].use =>
            (KeyOfEntry(src) \in DOMAIN assets =>
               /\ KeyOfEntry(src) \in DOMAIN assets'
               /\ assets'[KeyOfEntry(src)] = assets[KeyOfEntry(src)])]_vars

\* C12: when reconcile finds a declared pattern whose builder changed, the
\* registry entry is replaced by the declared one and the artifact of the
\* pattern is removed from the Asset Store.
C12_BuilderChangeInvalidates ==
  [][\A src \in DOMAIN buildMatches \cap DOMAIN buildMatches' :
       buildMatches'[src].use # buildMatches[src].use =>
         /\ \E i \in 1..Len(Declared) : buildMatches'[src] = Declared[i]
         /\ KeyOfEntry(src) \notin DOMAIN assets']_vars

\* C13: reconcile leaves the entry of a pattern unchanged when the pattern is
\* still declared with the same builder, even if other fields differ.
C13_SameBuilderKeepsEntry ==
  [][buildMatches' # buildMatches =>
       \A src \in DOMAIN buildMatches :
         (\E i \in 1..Len(Declared) :
            Declared[i].src = src /\ Declared[i].use = buildMatches[src].use)
         => (src \in DOMAIN buildMatches' /\ buildMatches'[src] = buildMatches[src])]_vars

C13_Witness ==
  /\ nowJson = Some(RegCfg(<<RegFnGo, RegDataB>>))
  /\ DOMAIN buildMatches = {"fn.js", "data.js"}
  /\ buildMatches["fn.js"] = RegFnGo
  /\ buildMatches["data.js"] = RegData

IsNotFound(res) == res.statusCode = 404 /\ res.code = "FILE_NOT_FOUND" /\ res.ends = 1

\* the configuration request r is served with, and the position at which
\* serveProjectAsNowV2 routes it
ServedCfg(r) == IF variant = "stopping" THEN reqs[r].cfg ELSE nowJson
RoutingPc == IF variant = "stopping" THEN "updateBuildMatches" ELSE "getNowJson"

\* request r is about to be routed to a local destination that has no
\* artifact in the Asset Store
LocalMiss(r) ==
  /\ reqs[r].pc = RoutingPc
  /\ ServedCfg(r) # No
  /\ ~Throws(ServedCfg(r)[1])
  /\ ServedCfg(r)[1].builds # No
  /\ LET dec == devRouter(reqs[r].url, ServedCfg(r)[1].routes)
     IN /\ ~isURL(dec.dest)
        /\ dec.status \notin {301, 302, 303}
        /\ resolveDest(assets, dec.dest).asset = No

\* C14: a request whose local destination has no artifact in the Asset Store
\* is answered with 404 FILE_NOT_FOUND.
C14_MissingAssetIs404 ==
  [][\A r \in Reqs :
       (LocalMiss(r) /\ reqs'[r].pc # reqs[r].pc) =>
         /\ reqs'[r].pc = "done"
         /\ \E res \in responses' : IsNotFound(res)
         /\ \A res \in responses' \ responses : IsNotFound(res)]_vars

\* C16: a redirect response carries a redirect status and a Location header.
C16_RedirectCarriesLocation ==
  \A res \in responses :
    res.code = "redirect" =>
      /\ res.statusCode \in {301, 302, 303}
      /\ "location" \in DOMAIN res.headers

\* C17: every response the server itself produces carries x-now-id of the
\* request and x-now-cache: MISS.
C17_EveryResponseTraced ==
  \A res \in responses :
    res.code # "proxy" =>
      /\ "x-now-id" \in DOMAIN res.headers
      /\ res.headers["x-now-id"] = "nowRequestId"
      /\ "x-now-cache" \in DOMAIN res.headers
      /\ res.headers["x-now-cache"] = "MISS"

\* C15: a routing decision with status 301, 302 or 303 is answered as a
\* redirect, whether its destination is a path or a URL: it is not proxied
\* and not resolved as an asset.
C15_RedirectStatusRedirects ==
  \A r \in Reqs :
    (reqs[r].pc # "new"
       /\ devRouter(reqs[r].url, nowJson[1].routes).status \in {301, 302, 303})
    => (reqs[r].pc = "done" /\ reqs[r].res.code = "redirect")

\* key is `<dir>/index.<ext>`
IsIndexOf(key, dir) == \E ext \in Exts : key = dir \o <<"/", "index", ext>>

\* C18: when exactly one artifact is stored under `<dir>/index.<ext>` and
\* `<dir>` has no direct entry, the lookups of `<dir>` and `<dir>/`, with or
\* without a leading slash, resolve to that artifact and its key.
C18_IndexFallback ==
  callResult # No =>
    LET keys == callArgs[1].keys
        dir == StripTrailingSlash(StripLeadingSlash(callArgs[1].dest))
        stored == {keys[i] : i \in 1..Len(keys)}
    IN \A key \in stored :
         (/\ Len(dir) > 0
          /\ dir \notin stored
          /\ IsIndexOf(key, dir)
          /\ \A other \in stored : IsIndexOf(other, dir) => other = key)
         => /\ callResult[1].assetKey = key
            /\ callResult[1].asset = Some(StoreOf(keys)[key])

\* the position at which start() reads now.json
StartReadPc == IF variant = "stopping" THEN "getNowJson" ELSE "new"

UnsupportedVersion == nowJson # ENOENT /\ nowJson[1].version # 2

\* C19: a configuration whose version is not 2 makes start() fail before the
\* server listens; read at request time it makes only that request fail, with
\* an error response, and the server goes on.
C19_UnsupportedVersion ==
  [][/\ (startPc = StartReadPc /\ startPc' # startPc /\ UnsupportedVersion)
          => (startPc' = "failed" /\ server' = "created")
     /\ (startPc = "failed" /\ builds[0].state = "none") => server' = "created"
     /\ \A r \in Reqs :
          (reqs[r].pc = "getNowJson" /\ reqs'[r].pc # "getNowJson" /\ UnsupportedVersion) =>
            /\ reqs'[r].pc = "done"
            /\ \E res \in responses' : ServerError(res) /\ res.code = "error"
            /\ \A res \in responses' \ responses : ServerError(res)
            /\ \A q \in Reqs \ {r} : reqs'[q] = reqs[q]
            /\ server' = server
            /\ startPc' = startPc]_vars

C19_Witness ==
  /\ startPc = "done"
  /\ server = "listening"
  /\ nowJson = Some(CfgV1)
  /\ \E res \in responses : ServerError(res) /\ res.code = "error"
  /\ \E r \in Reqs : reqs[r].pc = "done"

\* the names of `e` whose value is a secret reference and that `l` lacks
SecretsNotIn(e, l) == {n \in DOMAIN e : Head(e[n]) = "@"} \ DOMAIN l

\* C20: validating an env configuration fails exactly when some value begins
\* with '@' under a name the local env file does not define, and the error
\* names all of these variables.
C20_MissingEnvReported ==
  callResult # No =>
    /\ callResult[1] # No <=> SecretsNotIn(callArgs[1].env, callArgs[1].localEnv) # {}
    /\ callResult[1] # No =>
         callResult[1][1].missing = SecretsNotIn(callArgs[1].env, callArgs[1].localEnv)

\* C21: after applyBuildEnv, the builders and restoreOriginalEnv, process.env
\* is exactly the snapshot taken by the constructor: added variables are
\* gone and changed or deleted ones have their snapshot value.
C21_EnvRestored ==
  (callResult # No /\ callResult[1].phase = "restored") => processEnv = originalEnv

C21_Witness ==
  /\ callResult # No
  /\ callResult[1].phase = "restored"
  /\ callArgs[1].writes = 1
  /\ \E name \in DOMAIN callResult[1].before : name \notin DOMAIN originalEnv
  /\ \E name \in DOMAIN originalEnv :
       name \notin DOMAIN callResult[1].before \/ callResult[1].before[name] # originalEnv[name]
  /\ processEnv = originalEnv

\* the rules of a table that match the path and end the matching: those not
\* flagged to continue, and those with a redirect status
Deciding(routes, path) ==
  {i \in 1..Len(routes) :
     /\ RuleMatches(routes[i], path)
     /\ (~routes[i].continue \/ routes[i].status \in {301, 302, 303})}

FirstDeciding(routes, path) ==
  CHOOSE i \in Deciding(routes, path) : \A j \in Deciding(routes, path) : i <= j

\* C23: the decision is that of the first rule, in declaration order, that
\* matches and does not continue (or carries a redirect status): its
\* destination with the capture substituted and its status; no later rule
\* changes it.
C23_FirstMatchDecides ==
  (callResult # No /\ Deciding(callArgs[1].routes, callArgs[1].url) # {}) =>
    /\ callResult[1].matched_route = FirstDeciding(callArgs[1].routes, callArgs[1].url)
    /\ callResult[1].dest =
         RuleDest(callArgs[1].routes[FirstDeciding(callArgs[1].routes, callArgs[1].url)],
                  callArgs[1].url)
    /\ callResult[1].status =
         StatusOr200(callArgs[1].routes[FirstDeciding(callArgs[1].routes, callArgs[1].url)].status)

\* /old/page under <<RouteApi, RouteOld, RouteGone>>: 301 to /new/page, and
\* the later matching rule does not change it
C23_Witness ==
  /\ callResult # No
  /\ callArgs[1].url = UrlOld
  /\ callArgs[1].routes = <<RouteApi, RouteOld, RouteGone>>
  /\ callResult[1].matched_route = 2
  /\ callResult[1].status = 301
  /\ callResult[1].dest = <<"/", "new", "/">> \o SubSeq(UrlOld, 4, Len(UrlOld))

\* the rules before index n that match the path and let the matching go on
Continuing(routes, path, n) ==
  {i \in 1..(n - 1) :
     /\ RuleMatches(routes[i], path)
     /\ routes[i].continue
     /\ routes[i].status \notin {301, 302, 303}}

\* C24: the decision of the first matching non-continuing rule carries the
\* headers of every matching continuing rule before it and its own.
C24_HeadersAccumulate ==
  (callResult # No /\ Deciding(callArgs[1].routes, callArgs[1].url) # {}) =>
    LET routes == callArgs[1].routes
        first == FirstDeciding(routes, callArgs[1].url)
        rules == Continuing(routes, callArgs[1].url, first) \cup {first}
    IN  /\ \A i \in rules : \A name \in DOMAIN routes[i].headers :
             /\ name \in DOMAIN callResult[1].headers
             /\ callResult[1].headers[name] \in {routes[j].headers[name] :
                    j \in {k \in rules : name \in DOMAIN routes[k].headers}}
        /\ \A name \in DOMAIN callResult[1].headers :
             \E i \in rules : name \in DOMAIN routes[i].headers

C24_Witness ==
  /\ callResult # No
  /\ callArgs[1].url = UrlOld
  /\ callArgs[1].routes = <<RouteApi, RouteCache, RouteOld>>
  /\ callResult[1].matched_route = 3
  /\ callResult[1].headers =
       [name \in {"x-api", "cache-control", "location"} |->
          IF name = "x-api" THEN "1" ELSE IF name = "location" THEN "/new" ELSE "no-cache"]

\* C25: every call returns a decision, and when no rule of the table matches
\* (the table may be empty) the destination is the request path, the status
\* 200.
C25_DefaultPassThrough ==
  (callResult # No /\ \A i \in 1..Len(callArgs[1].routes) :
                        ~RuleMatches(callArgs[1].routes[i], callArgs[1].url)) =>
    /\ callResult[1].dest = callArgs[1].url
    /\ callResult[1].status = 200
    /\ callResult[1].matched_route = 0

C25_Witness ==
  /\ callResult # No
  /\ callArgs[1].url = UrlMissing
  /\ callArgs[1].routes = <<RouteOld, RouteExt>>
  /\ callResult[1].dest = UrlMissing
  /\ callResult[1].status = 200

\* the builder declared for a source pattern
DeclaredUse(config, src) ==
  {config.builds[1][i].use : i \in {j \in 1..Len(config.builds[1]) : config.builds[1][j].src = src}}

\* C26: every routed request reads now.json again and reconciles the
\* registry against what it read, and its routing decision is taken with the
\* route table it read: an edit made between two requests shows in the
\* registry and in the answer of the second.
C26_ConfigRereadPerRequest ==
  [][variant = "stopping" =>
       \A r \in Reqs :
         /\ (reqs[r].pc = "getNowJson" /\ reqs'[r].pc = "updateBuildMatches")
              => reqs'[r].cfg = nowJson
         /\ (reqs[r].pc = "updateBuildMatches" /\ reqs'[r].pc # "updateBuildMatches") =>
              LET config == reqs[r].cfg[1]
                  dec == devRouter(reqs[r].url, config.routes)
              IN  /\ DOMAIN buildMatches' = DeclaredSources(config)
                  /\ \A src \in DOMAIN buildMatches' :
                       buildMatches'[src].use \in DeclaredUse(config, src)
                  /\ reqs'[r].pc = "done" =>
                       \E res \in responses' :
                         /\ \A name \in DOMAIN dec.headers :
                              name \in DOMAIN res.headers /\ res.headers[name] = dec.headers[name]
                         /\ dec.status \in {301, 302, 303} => res.statusCode = dec.status]_vars

\* now.json was CfgBase for one request (its answer has the header of
\* RouteApi) and CfgOther for the next one (redirected by RouteOld alone)
C26_Witness ==
  /\ variant = "stopping"
  /\ edits = 1
  /\ nowJson = Some(CfgOther)
  /\ \A r \in Reqs : reqs[r].pc = "done"
  /\ \E res \in responses : "x-api" \in DOMAIN res.headers
  /\ \E res \in responses : res.statusCode = 301 /\ "x-api" \notin DOMAIN res.headers
  /\ DOMAIN buildMatches = {"fn.js", "data.js"}
  /\ buildMatches["fn.js"].use = "@now/go"

\* C27: when start() completes, the output of every declared version-1
\* builder is in the Asset Store and no version-2 builder has been run.
C27_InitialBuildsOfV1Only ==
  [][(startPc # "done" /\ startPc' = "done" /\ startCfg # No) =>
       \A i \in 1..Len(getBuildMatches(startCfg[1])) :
         LET build == getBuildMatches(startCfg[1])[i]
         IN  /\ BuilderVersion(build.use) = 1 => KeyOfEntry(build.src) \in DOMAIN assets'
             /\ BuilderVersion(build.use) = 2 => KeyOfEntry(build.src) \notin DOMAIN assets']_vars

\* the answer to a failed invocation: 502, NO_STATUS_CODE_FROM_LAMBDA, the
\* trace headers, ended once
IsLambdaFailure(res) ==
  /\ res.code = "NO_STATUS_CODE_FROM_LAMBDA"
  /\ res.statusCode = 502
  /\ res.ends = 1
  /\ \A name \in DOMAIN NowHeaders("nowRequestId") :
       name \in DOMAIN res.headers /\ res.headers[name] = NowHeaders("nowRequestId")[name]

\* C28: the step that settles a Lambda invocation answers the request with
\* the function's own response or, when the invocation failed, with 502
\* NO_STATUS_CODE_FROM_LAMBDA and the trace headers; it never ends in the
\* handler's catch block, and it leaves the Asset Store as it was.
C28_InvokeFailureIs502 ==
  [][\A r \in Reqs :
       (reqs[r].pc = "invoke" /\ reqs'[r] # reqs[r]) =>
         /\ reqs'[r].pc = "done"
         /\ \A res \in responses' \ responses : res.code = "lambda" \/ IsLambdaFailure(res)
         /\ \A res \in responses' \ responses : res.code = "lambda" => res.statusCode # 502
         /\ assets' = assets
         /\ status' = "idle"]_vars

\* one invocation of fn.js has failed, the function is still in the store
\* and another request has been answered by it
C28_Witness ==
  /\ variant = "status"
  /\ \E res \in responses : IsLambdaFailure(res)
  /\ \E res \in responses : res.code = "lambda"
  /\ FnKey \in DOMAIN assets
  /\ assets[FnKey].type = "Lambda"
  /\ \A r \in Reqs : reqs[r].pc = "done"

AssetTypes == {"FileFsRef", "FileBlob", "Lambda"}

\* the artifact the call of serveProjectAsNowV2 resolved the request to
ServedAsset ==
  resolveDest(assets, devRouter(reqs[1].url, nowJson[1].routes).dest).asset

\* the call resolved the request to a stored artifact
ReachedSwitch ==
  /\ reqs[1].pc # "new"
  /\ ~isURL(devRouter(reqs[1].url, nowJson[1].routes).dest)
  /\ StatusOr200(devRouter(reqs[1].url, nowJson[1].routes).status) \notin {301, 302, 303}
  /\ nowJson[1].builds # No
  /\ ServedAsset # No

\* C29: a request that resolves to an artifact of a type other than file
\* reference, blob or function, and does not first wait for its rebuild, is
\* answered, once, with 500 and the code UNKNOWN_ASSET_TYPE.
C29_UnknownAssetTypeIs500 ==
  (/\ variant = "status"
   /\ ReachedSwitch
   /\ reqs[1].pc # "build"
   /\ ServedAsset[1].type \notin AssetTypes) =>
    /\ reqs[1].pc = "done"
    /\ reqs[1].res.statusCode = 500
    /\ reqs[1].res.code = "UNKNOWN_ASSET_TYPE"
    /\ reqs[1].res.ends = 1

C29_Witness ==
  /\ variant = "status"
  /\ nowJson = Some(CfgRef)
  /\ reqs[1].url = UrlData
  /\ TxtKey \in DOMAIN assets
  /\ assets[TxtKey].type = "FileRef"
  /\ reqs[1].res.code = "UNKNOWN_ASSET_TYPE"
  /\ reqs[1].res.statusCode = 500

\* C30: every accepted request gets as far as its ended response or the wait
\* for a build, and a request that does not wait for a build for ever gets
\* its response ended.
C30_AcceptedRequestEnds ==
  \A r \in Reqs :
    /\ (reqs[r].pc # "new") ~> (reqs[r].pc \in {"done", "build"})
    /\ []<>(reqs[r].pc # "build") => ((reqs[r].pc # "new") ~> (reqs[r].pc = "done"))

\* both requests have been answered, one of them by the function after a
\* rebuild that completed, the other with a static file
C30_Witness ==
  /\ \A r \in Reqs : reqs[r].pc = "done"
  /\ \E r \in Reqs : builds[r].state = "ok"
  /\ \E res \in responses : res.code = "lambda"
  /\ \E res \in responses : res.code = "static"

\* a build declared in the configuration of request r produces the artifact
\* its destination resolves to
HasBuildEntry(r) ==
  LET config == ServedCfg(r)[1]
      dest == devRouter(reqs[r].url, config.routes).dest
  IN \E i \in 1..Len(getBuildMatches(config)) :
       LET build == getBuildMatches(config)[i]
       IN resolveDest(KeyOfEntry(build.src) :> Artifact(build, now, 0), dest).asset # No

\* C31: a request whose destination has no artifact in the Asset Store, while
\* a declared build produces it, has that build run before it is answered.
C31_MissTriggersBuild ==
  [][\A r \in Reqs :
       (LocalMiss(r) /\ HasBuildEntry(r) /\ reqs'[r].pc # reqs[r].pc) =>
         (reqs'[r].pc = "build" /\ builds'[r].state = "running")]_vars

\* C32: a request that resolves to a stored artifact has it rebuilt exactly
\* when it carries `pragma: no-cache` or `cache-control: no-cache` and the
\* artifact has a buildEntry; otherwise the stored artifact is served as it
\* is and no build is started.
C32_RebuildOnlyOnNoCache ==
  (variant = "status" /\ ReachedSwitch) =>
    LET wanted == /\ (callArgs[1].pragma = "no-cache" \/ callArgs[1].cacheControl = "no-cache")
                  /\ ServedAsset[1].buildEntry # ""
    IN  /\ wanted <=> reqs[1].pc = "build"
        /\ wanted <=> reqs[1].rebuild # No
        /\ ~wanted =>
             /\ ServedAsset[1].type = "FileFsRef" => reqs[1].pc = "static"
             /\ ServedAsset[1].type = "FileBlob" =>
                  (reqs[1].pc = "done" /\ reqs[1].res.code = "asset")
             /\ (ServedAsset[1].type = "Lambda" /\ ServedAsset[1].fn) =>
                  (reqs[1].pc = "invoke" /\ reqs[1].asset = ServedAsset)

\* a rebuild asked for through cache-control alone
C32_Witness ==
  /\ variant = "status"
  /\ ReachedSwitch
  /\ callArgs = Some([pragma |-> "", cacheControl |-> "no-cache"])
  /\ ServedAsset[1].buildEntry = "fn.js"
  /\ reqs[1].pc = "build"
  /\ reqs[1].rebuild # No

IsBusyAnswer(res) == res.code = "busy" /\ res.ends = 1 /\ res.headers = NoHeaders

\* C33: on the class with a status, the status is busy until start() has
\* completed; a request that arrives while it is busy is answered at once
\* with the busy message and touches neither the Asset Store nor a builder;
\* until start() has completed no request is answered in any other way.
C33_BusyUntilStarted ==
  [][variant = "status" =>
       /\ startPc # "done" => status = "busy"
       /\ startPc' # "done" =>
            /\ status' = "busy"
            /\ \A res \in responses' : IsBusyAnswer(res)
            /\ \A r \in Reqs : reqs'[r].pc \in {"new", "done"}
       /\ \A r \in Reqs :
            (status = "busy" /\ reqs[r].pc = "new" /\ reqs'[r].pc # "new") =>
              /\ reqs'[r].pc = "done"
              /\ \A res \in responses' \ responses : IsBusyAnswer(res)
              /\ assets' = assets
              /\ builds' = builds
              /\ status' = "busy"]_vars

\* both requests arrived during the initial build and were told so
C33_Witness ==
  /\ variant = "status"
  /\ startPc = "initialBuild"
  /\ status = "busy"
  /\ \A r \in Reqs : reqs[r].pc = "done"
  /\ responses # {}
  /\ \A res \in responses : IsBusyAnswer(res)
  /\ assets = <<>>

\* key is the index file of the directory: `<dir>/index.<ext>`, or
\* `index.<ext>` for the root
IsIndexEntry(key, dir) ==
  IF dir = <<>> THEN \E ext \in Exts : key = <<"index", ext>> ELSE IsIndexOf(key, dir)

\* C35: a lookup resolves to the direct entry of its key when there is one,
\* otherwise only to an index file of that key, and to nothing when the store
\* has neither.
C35_DirectThenIndexOnly ==
  callResult # No =>
    LET keys == callArgs[1].keys
        key == StripLeadingSlash(callArgs[1].dest)
        stored == {keys[i] : i \in 1..Len(keys)}
    IN  /\ key \in stored =>
             (callResult[1].assetKey = key /\ callResult[1].asset = Some(StoreOf(keys)[key]))
        /\ (key \notin stored /\ callResult[1].asset # No) =>
             /\ callResult[1].assetKey \in stored
             /\ IsIndexEntry(callResult[1].assetKey, StripTrailingSlash(key))
        /\ (key \notin stored /\ \A k \in stored : ~IsIndexEntry(k, StripTrailingSlash(key)))
             => callResult[1].asset = No

\* C36: `projects rm <name>` prints the success message only when the DELETE
\* request succeeded.
C36_SuccessOnlyAfterDelete ==
  (\E i \in 1..Len(callResult[1].stdout) : callResult[1].stdout[i] = "Success") =>
    (callResult[1].fetched # No /\ callResult[1].fetched[1].ok)

\* the org of the link file is one the API resolves for this user
OrgResolves ==
  \/ callArgs[1].file.orgId = TeamOrg /\ TeamOrg \in callArgs[1].teams
  \/ callArgs[1].file.orgId = UserOrg

\* C37: getLinkedProject returns both an org and a project or [null, null];
\* a missing link file, an unresolved org and a project that is not found
\* give [null, null]; an unparsable link file raises the settings error.
C37_BothOrNeither ==
  callResult[1].out # No =>
    LET out == callResult[1].out[1]
        file == callArgs[1].file
    IN  /\ out.kind = "returned" => (out.org = No <=> out.project = No)
        /\ file.kind = "ENOENT" => out = Returned(No, No)
        /\ file.kind = "unparsable" => out = Thrown("settings could not be retrieved")
        /\ (file.kind = "link" /\ out.kind = "returned") =>
             /\ ~OrgResolves => out = Returned(No, No)
             /\ file.projectId \notin callArgs[1].projects => out = Returned(No, No)
             /\ (OrgResolves /\ file.projectId \in callArgs[1].projects) =>
                  /\ out.org # No
                  /\ out.org[1].id = file.orgId
                  /\ out.project = Some([id |-> file.projectId])

\* the project exists but the team of the link does not: [null, null]
C37_Witness ==
  /\ callResult[1].out = Some(Returned(No, No))
  /\ callArgs[1].file.kind = "link"
  /\ callArgs[1].file.orgId = TeamOrg
  /\ callArgs[1].teams = {}
  /\ callArgs[1].projects = {"prj_1"}
  /\ callResult[1].project = Value([id |-> "prj_1"])

\* C38: for every deployment or build, isReady and isFailed are not both
\* true, and isDone is true exactly when one of them is.
C38_ReadyFailedExclusive ==
  (callResult[1].isReady # No /\ callResult[1].isFailed # No /\ callResult[1].isDone # No) =>
    /\ ~(callResult[1].isReady[1] /\ callResult[1].isFailed[1])
    /\ callResult[1].isDone[1] <=> (callResult[1].isReady[1] \/ callResult[1].isFailed[1])

\* a chunk that satisfies the assertion has been emitted since the call
MatchSeen ==
  \E i \in 1..Len(callResult[1].chunks) : assertion(callArgs[1], callResult[1].chunks[i].chunk)

\* C39: the promise waitForPrompt returned is fulfilled only after a chunk
\* satisfying the assertion was emitted, and rejected only after 3000 ms
\* without one.
C39_SettlesAfterPromptOrTimeout ==
  /\ callResult[1].returned = "fulfilled" => MatchSeen
  /\ callResult[1].returned = "rejected" =>
       (callResult[1].elapsed >= PROMPT_TIMEOUT /\ ~MatchSeen)

====
